---- MODULE Spec2Model ----
(***************************************************************************)
(* A model of the LC-3 virtual machine of tomip01/lc3-vm: the bit          *)
(* utilities (lc3/bytes.rs), the memory with its memory-mapped keyboard    *)
(* (lc3/memory.rs), the opcode and trap decoders (lc3/opcode.rs,           *)
(* lc3/trap.rs) and the instruction engine with its fetch/execute loop     *)
(* (lc3/vm.rs).  Words are naturals below 2^16 and every u16 operation is  *)
(* modelled at its width.                                                  *)
(***************************************************************************)
EXTENDS Integers, Sequences, FiniteSets, TLC

VARIABLES
    registers,        \* VM.registers: [0..7 -> u16]
    pc,               \* VM.pc
    cond,             \* VM.cond: "Pos", "Zro" or "Neg"
    running,          \* VM.running
    memory,           \* VM.memory.memory, kept sparse: the nonzero cells only
    stdin,            \* the bytes the host input still holds
    stdout,           \* the bytes that reached the host output
    pending,          \* the bytes printed but still in the stdout buffer
    at,               \* the position of the caller: see the actions
    instruction,      \* the local `instr` of run / the argument of execute
    result,           \* the Result the last fallible call returned
    pre,              \* history: the machine as the last operation found it
    fetched_at,       \* history: the address the last fetch read
    steps,            \* history: how many operations were applied
    overflow_checks,  \* the build: TRUE for debug (overflow checks on)
    call,             \* the pure call under test: arguments and result
    termios,          \* the c_lflag bits of the terminal on standard input
    original_termios, \* main: the attributes set_termios returned, if any
    exit_code         \* the status the process ended with, if it has

vars == <<registers, pc, cond, running, memory, stdin, stdout, pending, at,
          instruction, result, pre, fetched_at, steps, overflow_checks, call,
          termios, original_termios, exit_code>>

host == <<termios, original_termios, exit_code>>

-----------------------------------------------------------------------------
(* Program constants *)

TOTAL_REGISTERS == 8
MEMORY_MAX == 65536
MR_KBSR == 65024
MR_KBDR == 65026
PC_START == 12288

U16 == 2 ^ 16
Word == 0 .. (U16 - 1)
NoError == "None"

-----------------------------------------------------------------------------
(* u16 bit operations *)

Pow2(n) == 2 ^ n

Bit(v, i) == (v \div Pow2(i)) % 2

RECURSIVE BitAndN(_, _, _)
BitAndN(a, b, n) ==
    IF n = 0 THEN 0
    ELSE (a % 2) * (b % 2) + 2 * BitAndN(a \div 2, b \div 2, n - 1)

\* a & (2^k - 1) is a mod 2^k: the masks of the decoder take this path.
LowMasks == {Pow2(k) - 1 : k \in 0 .. 16}

BitAnd(a, b) == IF b \in LowMasks THEN a % (b + 1) ELSE BitAndN(a, b, 16)

RECURSIVE BitOrN(_, _, _)
BitOrN(a, b, n) ==
    IF n = 0 THEN 0
    ELSE (IF (a % 2) + (b % 2) > 0 THEN 1 ELSE 0)
         + 2 * BitOrN(a \div 2, b \div 2, n - 1)

BitOr(a, b) == BitOrN(a, b, 16)

BitNot(a) == (U16 - 1) - a

wrapping_add(a, b) == (a + b) % U16

\* u16 `<<` and `>>`: a shift amount of 16 or more panics where overflow
\* checks are on, and is taken modulo 16 where they are off.
ShiftOverflows(n) == n >= 16
Shl(v, n) == (v * Pow2(n % 16)) % U16
Shr(v, n) == v \div Pow2(n % 16)

-----------------------------------------------------------------------------
(* lc3/bytes.rs *)

Ok(v) == [err |-> NoError, val |-> v]
Err(e) == [err |-> e, val |-> 0]

sign_extend(value, bit_count) ==
    IF bit_count = 0 THEN Err("Overflow")
    ELSE LET last_bit_position == bit_count - 1 IN
         IF ShiftOverflows(last_bit_position) /\ overflow_checks
         THEN Err("Panic")
         ELSE IF BitAnd(Shr(value, last_bit_position), 1) = 1
              THEN IF ShiftOverflows(bit_count) /\ overflow_checks
                   THEN Err("Panic")
                   ELSE Ok(BitOr(value, Shl(65535, bit_count)))
              ELSE Ok(value)

\* concatenate_bytes reading the pair little-endian (u16::from_le_bytes).
concatenate_bytes_le(bytes) ==
    IF Len(bytes) # 2 THEN Err("ConcatenatingBytes")
    ELSE Ok(bytes[2] * 256 + bytes[1])

concatenate_bytes(bytes) ==
    IF Len(bytes) # 2 THEN Err("ConcatenatingBytes")
    ELSE Ok(bytes[1] * 256 + bytes[2])

-----------------------------------------------------------------------------
(* The machine as a value: the fields of VM, the host channels, and the    *)
(* error of the call in progress (NoError while it has not failed).        *)

Failed(s) == s.err # NoError
Fail(s, e) == [s EXCEPT !.err = e]

\* A call's Result paired with the machine it leaves behind.
Ret(s, v) == [st |-> s, val |-> v]

-----------------------------------------------------------------------------
(* lc3/memory.rs *)

Cell(m, index) == IF index \in DOMAIN m THEN m[index] ELSE 0

Store(m, index, value) ==
    IF value = 0
    THEN [j \in (DOMAIN m) \ {index} |-> m[j]]
    ELSE [j \in (DOMAIN m) \cup {index} |-> IF j = index THEN value ELSE m[j]]

\* mem_write with the index taken modulo the memory size.
mem_write_wrapping(s, value, index) ==
    [s EXCEPT !.memory = Store(@, index % MEMORY_MAX, value)]

mem_write(s, value, index) ==
    IF index \in 0 .. (MEMORY_MAX - 1)
    THEN [s EXCEPT !.memory = Store(@, index, value)]
    ELSE Fail(s, "MemoryIndex")

\* check_key storing the byte in the data register whatever it is.
check_key_stores_zero(s) ==
    IF s.stdin = <<>> THEN Fail(s, "StandardIO")
    ELSE LET buffer == Head(s.stdin)
             s1 == [s EXCEPT !.stdin = Tail(@)]
             s2 == mem_write(s1, IF buffer # 0 THEN Shl(1, 15) ELSE 0, MR_KBSR)
         IN  IF Failed(s2) THEN s2 ELSE mem_write(s2, buffer, MR_KBDR)

\* stdin().read_exact of one byte: fails at the end of the input.
check_key(s) ==
    IF s.stdin = <<>> THEN Fail(s, "StandardIO")
    ELSE LET buffer == Head(s.stdin)
             s1 == [s EXCEPT !.stdin = Tail(@)]
         IN  IF buffer # 0
             THEN LET s2 == mem_write(s1, Shl(1, 15), MR_KBSR) IN
                  IF Failed(s2) THEN s2 ELSE mem_write(s2, buffer, MR_KBDR)
             ELSE mem_write(s1, 0, MR_KBSR)

\* mem_read without the keyboard poll: the status register is plain memory.
mem_read_unpolled(s, index) ==
    IF index \in 0 .. (MEMORY_MAX - 1)
    THEN Ret(s, Cell(s.memory, index))
    ELSE Ret(Fail(s, "MemoryIndex"), 0)

mem_read(s, index) ==
    LET s1 == IF index = MR_KBSR THEN check_key(s) ELSE s IN
    IF Failed(s1) THEN Ret(s1, 0)
    ELSE IF index \in 0 .. (MEMORY_MAX - 1)
         THEN Ret(s1, Cell(s1.memory, index))
         ELSE Ret(Fail(s1, "MemoryIndex"), 0)

\* bytes.chunks(2): a trailing byte is kept as a last chunk of one byte.
chunks_2(bytes) ==
    [k \in 1 .. ((Len(bytes) + 1) \div 2) |->
        IF 2 * k <= Len(bytes) THEN <<bytes[2 * k - 1], bytes[2 * k]>>
        ELSE <<bytes[2 * k - 1]>>]

\* bytes.chunks_exact(2): the complete 2-byte chunks, a trailing byte dropped.
chunks_exact_2(bytes) ==
    [k \in 1 .. (Len(bytes) \div 2) |-> <<bytes[2 * k - 1], bytes[2 * k]>>]

RECURSIVE collect_words(_, _)
collect_words(chunks, k) ==
    IF k > Len(chunks) THEN Ok(<<>>)
    ELSE LET concatenated == concatenate_bytes(chunks[k]) IN
         IF concatenated.err # NoError THEN concatenated
         ELSE LET rest == collect_words(chunks, k + 1) IN
              IF rest.err # NoError THEN rest
              ELSE Ok(<<concatenated.val>> \o rest.val)

\* The write loop checking every destination index before the first store.
RECURSIVE write_words_all_or_nothing(_, _, _, _)
write_words_all_or_nothing(s, collected, origin, i) ==
    IF origin + Len(collected) > MEMORY_MAX THEN Fail(s, "MemoryIndex")
    ELSE IF i >= Len(collected) THEN s
         ELSE write_words_all_or_nothing(mem_write(s, collected[i + 1], i + origin),
                                         collected, origin, i + 1)

RECURSIVE write_words(_, _, _, _)
write_words(s, collected, origin, i) ==
    IF i >= Len(collected) THEN s
    ELSE LET index == i + origin
             s1 == mem_write(s, collected[i + 1], index)
         IN  IF Failed(s1) THEN s1 ELSE write_words(s1, collected, origin, i + 1)

\* read_image_bytes taking a stream without an origin for an empty image.
read_image_bytes_origin_optional(s, bytes) ==
    LET chunks_of_two_bytes == chunks_exact_2(bytes) IN
    IF Len(chunks_of_two_bytes) = 0 THEN s
    ELSE LET origin == concatenate_bytes(chunks_of_two_bytes[1]) IN
         IF origin.err # NoError THEN Fail(s, origin.err)
         ELSE LET collected == collect_words(Tail(chunks_of_two_bytes), 1) IN
              IF collected.err # NoError THEN Fail(s, collected.err)
              ELSE write_words(s, collected.val, origin.val, 0)

read_image_bytes(s, bytes) ==
    LET chunks_of_two_bytes == chunks_exact_2(bytes) IN
    IF Len(chunks_of_two_bytes) = 0 THEN Fail(s, "ConcatenatingBytes")
    ELSE LET origin == concatenate_bytes(chunks_of_two_bytes[1]) IN
         IF origin.err # NoError THEN Fail(s, origin.err)
         ELSE LET collected == collect_words(Tail(chunks_of_two_bytes), 1) IN
              IF collected.err # NoError THEN Fail(s, collected.err)
              ELSE write_words(s, collected.val, origin.val, 0)

-----------------------------------------------------------------------------
(* lc3/vm.rs: register file and condition flag *)

\* get_register over a register file of seven registers.
get_register_seven(s, register_index) ==
    IF register_index \in 0 .. (TOTAL_REGISTERS - 2)
    THEN Ok(s.registers[register_index])
    ELSE Err("InvalidRegister")

get_register(s, register_index) ==
    IF register_index \in 0 .. (TOTAL_REGISTERS - 1)
    THEN Ok(s.registers[register_index])
    ELSE Err("InvalidRegister")

\* set_register updating cond from the value it writes.
set_register_sets_flags(s, register_index, value) ==
    IF register_index \in 0 .. (TOTAL_REGISTERS - 1)
    THEN [s EXCEPT !.registers[register_index] = value,
                   !.cond = IF value = 0 THEN "Zro"
                            ELSE IF value >= 32768 THEN "Neg" ELSE "Pos"]
    ELSE Fail(s, "InvalidRegister")

set_register(s, register_index, value) ==
    IF register_index \in 0 .. (TOTAL_REGISTERS - 1)
    THEN [s EXCEPT !.registers[register_index] = value]
    ELSE Fail(s, "InvalidRegister")

\* update_flags without the sign test: every nonzero value is Pos.
update_flags_unsigned(s, register_index) ==
    LET value == get_register(s, register_index) IN
    IF value.err # NoError THEN Fail(s, value.err)
    ELSE IF value.val = 0 THEN [s EXCEPT !.cond = "Zro"]
         ELSE [s EXCEPT !.cond = "Pos"]

update_flags(s, register_index) ==
    LET value == get_register(s, register_index) IN
    IF value.err # NoError THEN Fail(s, value.err)
    ELSE IF value.val = 0 THEN [s EXCEPT !.cond = "Zro"]
         ELSE IF Shr(value.val, 15) = 1 THEN [s EXCEPT !.cond = "Neg"]
              ELSE [s EXCEPT !.cond = "Pos"]

-----------------------------------------------------------------------------
(* lc3/vm.rs: the instructions *)

\* The second operand of ADD and AND: imm5 sign-extended, or SR2.
\* The second operand with imm5 taken as it stands, not sign-extended.
operand2_zero_extended(s, instr) ==
    IF BitAnd(Shr(instr, 5), 1) = 1
    THEN Ok(BitAnd(instr, 31))
    ELSE get_register(s, BitAnd(instr, 7))

operand2(s, instr) ==
    IF BitAnd(Shr(instr, 5), 1) = 1
    THEN sign_extend(BitAnd(instr, 31), 5)
    ELSE get_register(s, BitAnd(instr, 7))

add(s, instr) ==
    LET r0 == BitAnd(Shr(instr, 9), 7)
        r1 == BitAnd(Shr(instr, 6), 7)
        value_in_r1 == get_register(s, r1)
        second == operand2(s, instr)
    IN  IF value_in_r1.err # NoError THEN Fail(s, value_in_r1.err)
        ELSE IF second.err # NoError THEN Fail(s, second.err)
        ELSE LET sum == wrapping_add(value_in_r1.val, second.val)
                 s1 == set_register(s, r0, sum)
             IN  IF Failed(s1) THEN s1 ELSE update_flags(s1, r0)

\* AND storing the sum of its operands.
and_adds(s, instr) ==
    LET r0 == BitAnd(Shr(instr, 9), 7)
        r1 == BitAnd(Shr(instr, 6), 7)
        value_in_r1 == get_register(s, r1)
        second == operand2(s, instr)
    IN  IF value_in_r1.err # NoError THEN Fail(s, value_in_r1.err)
        ELSE IF second.err # NoError THEN Fail(s, second.err)
        ELSE LET sum == wrapping_add(value_in_r1.val, second.val)
                 s1 == set_register(s, r0, sum)
             IN  IF Failed(s1) THEN s1 ELSE update_flags(s1, r0)

and(s, instr) ==
    LET r0 == BitAnd(Shr(instr, 9), 7)
        r1 == BitAnd(Shr(instr, 6), 7)
        value_in_r1 == get_register(s, r1)
        second == operand2(s, instr)
    IN  IF value_in_r1.err # NoError THEN Fail(s, value_in_r1.err)
        ELSE IF second.err # NoError THEN Fail(s, second.err)
        ELSE LET res == BitAnd(value_in_r1.val, second.val)
                 s1 == set_register(s, r0, res)
             IN  IF Failed(s1) THEN s1 ELSE update_flags(s1, r0)

\* NOT storing the two's-complement negation.
not_negates(s, instr) ==
    LET r0 == BitAnd(Shr(instr, 9), 7)
        r1 == BitAnd(Shr(instr, 6), 7)
        value_in_r1 == get_register(s, r1)
    IN  IF value_in_r1.err # NoError THEN Fail(s, value_in_r1.err)
        ELSE LET s1 == set_register(s, r0, wrapping_add(BitNot(value_in_r1.val), 1)) IN
             IF Failed(s1) THEN s1 ELSE update_flags(s1, r0)

not(s, instr) ==
    LET r0 == BitAnd(Shr(instr, 9), 7)
        r1 == BitAnd(Shr(instr, 6), 7)
        value_in_r1 == get_register(s, r1)
    IN  IF value_in_r1.err # NoError THEN Fail(s, value_in_r1.err)
        ELSE LET s1 == set_register(s, r0, BitNot(value_in_r1.val)) IN
             IF Failed(s1) THEN s1 ELSE update_flags(s1, r0)

\* BR taking the mask 0 for an unconditional branch.
br_mask_zero_branches(s, instr) ==
    LET pc_offset == sign_extend(BitAnd(instr, 511), 9)
        cond_flag_instr == BitAnd(Shr(instr, 9), 7)
        meet_condition ==
            CASE s.cond = "Neg" -> BitAnd(cond_flag_instr, 4)
              [] s.cond = "Zro" -> BitAnd(cond_flag_instr, 2)
              [] s.cond = "Pos" -> BitAnd(cond_flag_instr, 1)
    IN  IF pc_offset.err # NoError THEN Fail(s, pc_offset.err)
        ELSE IF meet_condition # 0 \/ cond_flag_instr = 0
             THEN [s EXCEPT !.pc = wrapping_add(s.pc, pc_offset.val)]
             ELSE s

br(s, instr) ==
    LET pc_offset == sign_extend(BitAnd(instr, 511), 9)
        cond_flag_instr == BitAnd(Shr(instr, 9), 7)
        meet_condition ==
            CASE s.cond = "Neg" -> BitAnd(cond_flag_instr, 4)
              [] s.cond = "Zro" -> BitAnd(cond_flag_instr, 2)
              [] s.cond = "Pos" -> BitAnd(cond_flag_instr, 1)
    IN  IF pc_offset.err # NoError THEN Fail(s, pc_offset.err)
        ELSE IF meet_condition # 0
             THEN [s EXCEPT !.pc = wrapping_add(s.pc, pc_offset.val)]
             ELSE s

jmp(s, instr) ==
    LET r1 == BitAnd(Shr(instr, 6), 7)
        value_in_r1 == get_register(s, r1)
    IN  IF value_in_r1.err # NoError THEN Fail(s, value_in_r1.err)
        ELSE [s EXCEPT !.pc = value_in_r1.val]

jsr(s, instr) ==
    LET long_flag == BitAnd(Shr(instr, 11), 1)
        s1 == set_register(s, 7, s.pc)
    IN  IF Failed(s1) THEN s1
        ELSE IF long_flag = 1
             THEN LET long_pc_offset == sign_extend(BitAnd(instr, 2047), 11) IN
                  IF long_pc_offset.err # NoError THEN Fail(s1, long_pc_offset.err)
                  ELSE [s1 EXCEPT !.pc = wrapping_add(s1.pc, long_pc_offset.val)]
             ELSE LET r1 == BitAnd(Shr(instr, 6), 7)
                      value_in_r1 == get_register(s1, r1)
                  IN  IF value_in_r1.err # NoError THEN Fail(s1, value_in_r1.err)
                      ELSE [s1 EXCEPT !.pc = value_in_r1.val]

lea(s, instr) ==
    LET r0 == BitAnd(Shr(instr, 9), 7)
        pc_offset == sign_extend(BitAnd(instr, 511), 9)
    IN  IF pc_offset.err # NoError THEN Fail(s, pc_offset.err)
        ELSE LET value == wrapping_add(s.pc, pc_offset.val)
                 s1 == set_register(s, r0, value)
             IN  IF Failed(s1) THEN s1 ELSE update_flags(s1, r0)

\* LD with the address sum checked instead of wrapped (the variant kept in
\* lc3/instructions.rs): a sum above 0xFFFF is a MemoryIndex error.
ld_checked(s, instr) ==
    LET r0 == BitAnd(Shr(instr, 9), 7)
        pc_offset == sign_extend(BitAnd(instr, 511), 9)
    IN  IF pc_offset.err # NoError THEN Fail(s, pc_offset.err)
        ELSE IF s.pc + pc_offset.val >= U16 THEN Fail(s, "MemoryIndex")
        ELSE LET address == s.pc + pc_offset.val
                 value_read == mem_read(s, address)
             IN  IF Failed(value_read.st) THEN value_read.st
                 ELSE LET s1 == set_register(value_read.st, r0, value_read.val) IN
                      IF Failed(s1) THEN s1 ELSE update_flags(s1, r0)

ld(s, instr) ==
    LET r0 == BitAnd(Shr(instr, 9), 7)
        pc_offset == sign_extend(BitAnd(instr, 511), 9)
    IN  IF pc_offset.err # NoError THEN Fail(s, pc_offset.err)
        ELSE LET address == wrapping_add(s.pc, pc_offset.val)
                 value_read == mem_read(s, address)
             IN  IF Failed(value_read.st) THEN value_read.st
                 ELSE LET s1 == set_register(value_read.st, r0, value_read.val) IN
                      IF Failed(s1) THEN s1 ELSE update_flags(s1, r0)

ldr(s, instr) ==
    LET r0 == BitAnd(Shr(instr, 9), 7)
        r1 == BitAnd(Shr(instr, 6), 7)
        value_in_r1 == get_register(s, r1)
        pc_offset == sign_extend(BitAnd(instr, 63), 6)
    IN  IF value_in_r1.err # NoError THEN Fail(s, value_in_r1.err)
        ELSE IF pc_offset.err # NoError THEN Fail(s, pc_offset.err)
        ELSE LET address == wrapping_add(value_in_r1.val, pc_offset.val)
                 value_read == mem_read(s, address)
             IN  IF Failed(value_read.st) THEN value_read.st
                 ELSE LET s1 == set_register(value_read.st, r0, value_read.val) IN
                      IF Failed(s1) THEN s1 ELSE update_flags(s1, r0)

\* LDI loading the pointer itself, without the second read.
ldi_direct(s, instr) ==
    LET r0 == BitAnd(Shr(instr, 9), 7)
        pc_offset == sign_extend(BitAnd(instr, 511), 9)
    IN  IF pc_offset.err # NoError THEN Fail(s, pc_offset.err)
        ELSE LET address == wrapping_add(s.pc, pc_offset.val)
                 value_read == mem_read(s, address)
             IN  IF Failed(value_read.st) THEN value_read.st
                 ELSE LET s1 == set_register(value_read.st, r0, value_read.val) IN
                      IF Failed(s1) THEN s1 ELSE update_flags(s1, r0)

ldi(s, instr) ==
    LET r0 == BitAnd(Shr(instr, 9), 7)
        pc_offset == sign_extend(BitAnd(instr, 511), 9)
    IN  IF pc_offset.err # NoError THEN Fail(s, pc_offset.err)
        ELSE LET address == wrapping_add(s.pc, pc_offset.val)
                 value_read == mem_read(s, address)
             IN  IF Failed(value_read.st) THEN value_read.st
                 ELSE LET value == mem_read(value_read.st, value_read.val) IN
                      IF Failed(value.st) THEN value.st
                      ELSE LET s1 == set_register(value.st, r0, value.val) IN
                           IF Failed(s1) THEN s1 ELSE update_flags(s1, r0)

st(s, instr) ==
    LET r0 == BitAnd(Shr(instr, 9), 7)
        value_in_r0 == get_register(s, r0)
        pc_offset == sign_extend(BitAnd(instr, 511), 9)
    IN  IF value_in_r0.err # NoError THEN Fail(s, value_in_r0.err)
        ELSE IF pc_offset.err # NoError THEN Fail(s, pc_offset.err)
        ELSE LET address == wrapping_add(s.pc, pc_offset.val) IN
             mem_write(s, value_in_r0.val, address)

\* STI storing at the address it computes instead of through the pointer
\* held there.
sti_direct(s, instr) ==
    LET r0 == BitAnd(Shr(instr, 9), 7)
        value_in_r0 == get_register(s, r0)
        pc_offset == sign_extend(BitAnd(instr, 511), 9)
    IN  IF value_in_r0.err # NoError THEN Fail(s, value_in_r0.err)
        ELSE IF pc_offset.err # NoError THEN Fail(s, pc_offset.err)
        ELSE LET address == wrapping_add(s.pc, pc_offset.val) IN
             mem_write(s, value_in_r0.val, address)

sti(s, instr) ==
    LET r0 == BitAnd(Shr(instr, 9), 7)
        value_in_r0 == get_register(s, r0)
        pc_offset == sign_extend(BitAnd(instr, 511), 9)
    IN  IF value_in_r0.err # NoError THEN Fail(s, value_in_r0.err)
        ELSE IF pc_offset.err # NoError THEN Fail(s, pc_offset.err)
        ELSE LET address == wrapping_add(s.pc, pc_offset.val)
                 value_read == mem_read(s, address)
             IN  IF Failed(value_read.st) THEN value_read.st
                 ELSE mem_write(value_read.st, value_in_r0.val, value_read.val)

\* STR adding offset6 as it stands, not sign-extended.
str_zero_extended(s, instr) ==
    LET r0 == BitAnd(Shr(instr, 9), 7)
        value_in_r0 == get_register(s, r0)
        r1 == BitAnd(Shr(instr, 6), 7)
        value_in_r1 == get_register(s, r1)
    IN  IF value_in_r0.err # NoError THEN Fail(s, value_in_r0.err)
        ELSE IF value_in_r1.err # NoError THEN Fail(s, value_in_r1.err)
        ELSE LET address == wrapping_add(value_in_r1.val, BitAnd(instr, 63)) IN
             mem_write(s, value_in_r0.val, address)

str(s, instr) ==
    LET r0 == BitAnd(Shr(instr, 9), 7)
        value_in_r0 == get_register(s, r0)
        r1 == BitAnd(Shr(instr, 6), 7)
        value_in_r1 == get_register(s, r1)
        pc_offset == sign_extend(BitAnd(instr, 63), 6)
    IN  IF value_in_r0.err # NoError THEN Fail(s, value_in_r0.err)
        ELSE IF value_in_r1.err # NoError THEN Fail(s, value_in_r1.err)
        ELSE IF pc_offset.err # NoError THEN Fail(s, pc_offset.err)
        ELSE LET address == wrapping_add(value_in_r1.val, pc_offset.val) IN
             mem_write(s, value_in_r0.val, address)

-----------------------------------------------------------------------------
(* The host channels.  Rust's stdout is line-buffered: printed bytes wait   *)
(* in the buffer until a newline is printed or the stream is flushed.       *)

NewLine == 10

\* print!("{char}") of a char made from a u8: its UTF-8 encoding.
Utf8(char) ==
    IF char < 128 THEN <<char>>
    ELSE <<192 + (char \div 64), 128 + (char % 64)>>

LastNewLine(bytes) ==
    LET at_newline == {k \in 1 .. Len(bytes) : bytes[k] = NewLine} IN
    IF at_newline = {} THEN 0
    ELSE CHOOSE k \in at_newline : \A j \in at_newline : j <= k

print(s, bytes) ==
    LET all == s.pending \o bytes
        k == LastNewLine(all)
    IN  [s EXCEPT !.stdout = @ \o SubSeq(all, 1, k),
                  !.pending = SubSeq(all, k + 1, Len(all))]

flush(s) == [s EXCEPT !.stdout = @ \o s.pending, !.pending = <<>>]

\* stdin().read_exact(&mut buffer) of one byte.
read_exact(s) ==
    IF s.stdin = <<>> THEN Ret(Fail(s, "StandardIO"), 0)
    ELSE Ret([s EXCEPT !.stdin = Tail(@)], Head(s.stdin))

-----------------------------------------------------------------------------
(* lc3/vm.rs: the TRAP routines *)

\* GETC storing the byte without updating cond.
getc_keeps_flags(s) ==
    LET buffer == read_exact(s) IN
    IF Failed(buffer.st) THEN buffer.st
    ELSE set_register(buffer.st, 0, buffer.val)

getc(s) ==
    LET buffer == read_exact(s) IN
    IF Failed(buffer.st) THEN buffer.st
    ELSE LET s1 == set_register(buffer.st, 0, buffer.val) IN
         IF Failed(s1) THEN s1 ELSE update_flags(s1, 0)

\* OUT narrowing R0 to its low 8 bits instead of refusing a value above 255.
out_low_byte(s) ==
    LET r0 == get_register(s, 0) IN
    IF r0.err # NoError THEN Fail(s, r0.err)
    ELSE flush(print(s, Utf8(r0.val % 256)))

out(s) ==
    LET r0 == get_register(s, 0) IN
    IF r0.err # NoError THEN Fail(s, r0.err)
    ELSE IF r0.val > 255 THEN Fail(s, "InvalidCharacter")
         ELSE flush(print(s, Utf8(r0.val)))

\* The PUTS walk with the address advanced by wrapping_add.
RECURSIVE puts_loop_wrapping(_, _, _)
puts_loop_wrapping(s, address, char_memory) ==
    IF char_memory = 0 THEN flush(s)
    ELSE IF char_memory > 255 THEN Fail(s, "InvalidCharacter")
    ELSE LET s1 == print(s, Utf8(char_memory))
             next == mem_read(s1, wrapping_add(address, 1))
         IN  IF Failed(next.st) THEN next.st
             ELSE puts_loop_wrapping(next.st, wrapping_add(address, 1), next.val)

RECURSIVE puts_loop(_, _, _)
puts_loop(s, address, char_memory) ==
    IF char_memory = 0 THEN flush(s)
    ELSE IF char_memory > 255 THEN Fail(s, "InvalidCharacter")
    ELSE LET s1 == print(s, Utf8(char_memory)) IN
         IF address + 1 >= U16 THEN Fail(s1, "MemoryIndex")
         ELSE LET next == mem_read(s1, address + 1) IN
              IF Failed(next.st) THEN next.st
              ELSE puts_loop(next.st, address + 1, next.val)

puts(s) ==
    LET address == get_register(s, 0) IN
    IF address.err # NoError THEN Fail(s, address.err)
    ELSE LET char_memory == mem_read(s, address.val) IN
         IF Failed(char_memory.st) THEN char_memory.st
         ELSE puts_loop(char_memory.st, address.val, char_memory.val)

EnterACharacter ==
    <<69, 110, 116, 101, 114, 32, 97, 32, 99, 104, 97, 114, 97, 99, 116, 101,
      114, 58, 32, NewLine>>

in_trap(s) ==
    LET s1 == print(s, EnterACharacter)
        buffer == read_exact(s1)
    IN  IF Failed(buffer.st) THEN buffer.st
        ELSE LET s2 == set_register(buffer.st, 0, buffer.val) IN
             IF Failed(s2) THEN s2
             ELSE LET s3 == update_flags(print(s2, Utf8(buffer.val)), 0) IN
                  IF Failed(s3) THEN s3 ELSE flush(s3)

RECURSIVE putsp_loop(_, _, _)
putsp_loop(s, address, char_memory) ==
    IF char_memory = 0 THEN flush(s)
    ELSE LET first_char == BitAnd(char_memory, 255)
             second_char == Shr(char_memory, 8)
         IN  IF first_char > 255 \/ second_char > 255
             THEN Fail(s, "InvalidCharacter")
             ELSE LET s1 == print(print(s, Utf8(first_char)), Utf8(second_char)) IN
                  IF address + 1 >= U16 THEN Fail(s1, "MemoryIndex")
                  ELSE LET next == mem_read(s1, address + 1) IN
                       IF Failed(next.st) THEN next.st
                       ELSE putsp_loop(next.st, address + 1, next.val)

putsp(s) ==
    LET address == get_register(s, 0) IN
    IF address.err # NoError THEN Fail(s, address.err)
    ELSE LET char_memory == mem_read(s, address.val) IN
         IF Failed(char_memory.st) THEN char_memory.st
         ELSE putsp_loop(char_memory.st, address.val, char_memory.val)

Halt == <<72, 65, 76, 84, NewLine>>

\* Mutant: HALT prints and flushes but leaves running set.
halt_keeps_running(s) == flush(print(s, Halt))

halt(s) == [flush(print(s, Halt)) EXCEPT !.running = FALSE]

-----------------------------------------------------------------------------
(* lc3/trap.rs, lc3/opcode.rs: the decoders *)

TrapCode_try_from(value) ==
    CASE value = 32 -> Ok("Getc")
      [] value = 33 -> Ok("Out")
      [] value = 34 -> Ok("Puts")
      [] value = 35 -> Ok("IN")
      [] value = 36 -> Ok("Putsp")
      [] value = 37 -> Ok("Halt")
      [] OTHER -> Err("InvalidTrapCode")

Opcode_try_from(value) ==
    CASE value = 0 -> Ok("BR")
      [] value = 1 -> Ok("Add")
      [] value = 2 -> Ok("LD")
      [] value = 3 -> Ok("ST")
      [] value = 4 -> Ok("Jsr")
      [] value = 5 -> Ok("And")
      [] value = 6 -> Ok("Ldr")
      [] value = 7 -> Ok("Str")
      [] value = 8 -> Ok("Rti")
      [] value = 9 -> Ok("Not")
      [] value = 10 -> Ok("Ldi")
      [] value = 11 -> Ok("Sti")
      [] value = 12 -> Ok("Jmp")
      [] value = 13 -> Ok("Res")
      [] value = 14 -> Ok("Lea")
      [] value = 15 -> Ok("Trap")
      [] OTHER -> Err("InvalidOpcode")

-----------------------------------------------------------------------------
(* lc3/vm.rs: TRAP and execute *)

\* trap decoding the vector before it saves the PC in R7.
trap_decodes_first(s, instr) ==
    LET trap_code == TrapCode_try_from(BitAnd(instr, 255)) IN
    IF trap_code.err # NoError THEN Fail(s, trap_code.err)
    ELSE LET s1 == set_register(s, 7, s.pc) IN
         IF Failed(s1) THEN s1
         ELSE CASE trap_code.val = "Getc" -> getc(s1)
                [] trap_code.val = "Out" -> out(s1)
                [] trap_code.val = "Puts" -> puts(s1)
                [] trap_code.val = "IN" -> in_trap(s1)
                [] trap_code.val = "Putsp" -> putsp(s1)
                [] trap_code.val = "Halt" -> halt(s1)

trap(s, instr) ==
    LET s1 == set_register(s, 7, s.pc) IN
    IF Failed(s1) THEN s1
    ELSE LET trap_code == TrapCode_try_from(BitAnd(instr, 255)) IN
         IF trap_code.err # NoError THEN Fail(s1, trap_code.err)
         ELSE CASE trap_code.val = "Getc" -> getc(s1)
                [] trap_code.val = "Out" -> out(s1)
                [] trap_code.val = "Puts" -> puts(s1)
                [] trap_code.val = "IN" -> in_trap(s1)
                [] trap_code.val = "Putsp" -> putsp(s1)
                [] trap_code.val = "Halt" -> halt(s1)

\* execute taking the reserved opcode for an instruction that does nothing.
execute_res_ignored(s, instr) ==
    LET op == Opcode_try_from(Shr(instr, 12)) IN
    IF op.err # NoError THEN Fail(s, op.err)
    ELSE CASE op.val = "BR" -> br(s, instr)
           [] op.val = "Add" -> add(s, instr)
           [] op.val = "LD" -> ld(s, instr)
           [] op.val = "ST" -> st(s, instr)
           [] op.val = "Jsr" -> jsr(s, instr)
           [] op.val = "And" -> and(s, instr)
           [] op.val = "Ldr" -> ldr(s, instr)
           [] op.val = "Str" -> str(s, instr)
           [] op.val = "Rti" -> Fail(s, "InvalidOpcode")
           [] op.val = "Not" -> not(s, instr)
           [] op.val = "Ldi" -> ldi(s, instr)
           [] op.val = "Sti" -> sti(s, instr)
           [] op.val = "Jmp" -> jmp(s, instr)
           [] op.val = "Res" -> s
           [] op.val = "Lea" -> lea(s, instr)
           [] op.val = "Trap" -> trap(s, instr)

execute(s, instr) ==
    LET op == Opcode_try_from(Shr(instr, 12)) IN
    IF op.err # NoError THEN Fail(s, op.err)
    ELSE CASE op.val = "BR" -> br(s, instr)
           [] op.val = "Add" -> add(s, instr)
           [] op.val = "LD" -> ld(s, instr)
           [] op.val = "ST" -> st(s, instr)
           [] op.val = "Jsr" -> jsr(s, instr)
           [] op.val = "And" -> and(s, instr)
           [] op.val = "Ldr" -> ldr(s, instr)
           [] op.val = "Str" -> str(s, instr)
           [] op.val = "Rti" -> Fail(s, "InvalidOpcode")
           [] op.val = "Not" -> not(s, instr)
           [] op.val = "Ldi" -> ldi(s, instr)
           [] op.val = "Sti" -> sti(s, instr)
           [] op.val = "Jmp" -> jmp(s, instr)
           [] op.val = "Res" -> Fail(s, "InvalidOpcode")
           [] op.val = "Lea" -> lea(s, instr)
           [] op.val = "Trap" -> trap(s, instr)

-----------------------------------------------------------------------------
(* lc3/memory.rs: read_image.  A file is its content, or unreadable. *)

File(bytes) == [readable |-> TRUE, content |-> bytes]

read_image(s, file) ==
    IF ~file.readable THEN Fail(s, "ReadingFile")
    ELSE read_image_bytes(s, file.content)

-----------------------------------------------------------------------------
(* The machine held in the variables *)

VM == [registers |-> registers, pc |-> pc, cond |-> cond, running |-> running,
       memory |-> memory, stdin |-> stdin, stdout |-> stdout,
       pending |-> pending, err |-> NoError]

Install(s) ==
    /\ registers' = s.registers
    /\ pc' = s.pc
    /\ cond' = s.cond
    /\ running' = s.running
    /\ memory' = s.memory
    /\ stdin' = s.stdin
    /\ stdout' = s.stdout
    /\ pending' = s.pending

Outcome(s) == IF Failed(s) THEN s.err ELSE "Ok"

NoCall == [fn |-> "none"]

\* VM::new()
New ==
    /\ registers = [i \in 0 .. (TOTAL_REGISTERS - 1) |-> 0]
    /\ pc = PC_START
    /\ cond = "Zro"
    /\ running = FALSE
    /\ memory = <<>>

-----------------------------------------------------------------------------
(* The host program: main.rs *)

\* termios::{ICANON, ECHO}: the two c_lflag bits main.rs touches
ICANON == "ICANON"
ECHO == "ECHO"

None == <<>>
Some(x) == <<x>>

\* The host as the specifications that call the machine directly leave it:
\* main has not run.
NoHost ==
    /\ termios = {ICANON, ECHO}
    /\ original_termios = None
    /\ exit_code = None

-----------------------------------------------------------------------------
(* Bounds and the inputs drawn under them *)

MaxLoads == 2       \* read_image calls before run
MaxSteps == 9       \* instructions run fetches
MaxCalls == 2       \* direct calls of execute on one machine
MaxWords == 2       \* data words of a generated image

\* An image file: the origin, then the words, each big-endian.
RECURSIVE WordBytes(_)
WordBytes(words) ==
    IF words = <<>> THEN <<>>
    ELSE <<Head(words) \div 256, Head(words) % 256>> \o WordBytes(Tail(words))

Image(origin, words) == WordBytes(<<origin>> \o words)

\* LEA, LD, JSR over a data word, ST, BR, TRAP HALT.
ProgramCall ==
    Image(\h3000, <<\hE002, \h2201, \h4801, \hFFFF, \h3FFE, \h0E01, \h8000, \hF025>>)

\* Load 0xFFFF and jump to it: the fetch at the last address.
ProgramLastAddress ==
    Image(\h3000, <<\h2401, \hC080, \hFFFF>>)

\* LDI and STI through a pointer, TRAP GETC, TRAP OUT, an invalid TRAP.
ProgramIndirect ==
    Image(\h3000, <<\hA004, \hB203, \hF020, \hF021, \hF0FF, \h3006, \h0041>>)

\* Poll the keyboard status register; HALT if no key, else PUTS a string
\* and run into the data.
ProgramKeyboard ==
    Image(\h3000, <<\hA004, \h0801, \hF025, \hE002, \hF022, \hFE00, \h0048, \h0069>>)

\* One ADD placed at the last address.
DataLastAddress == Image(\hFFFF, <<\h16E1>>)

Images == {ProgramCall, ProgramLastAddress, ProgramIndirect, ProgramKeyboard,
           DataLastAddress}

Files == {File(bytes) : bytes \in Images}
         \cup {[readable |-> FALSE, content |-> <<>>]}

Inputs == {<<>>, <<0, 66>>, <<65, 0>>}

-----------------------------------------------------------------------------
(* The program: VM::new(), read_image, run *)

Init ==
    /\ New
    /\ stdin \in Inputs
    /\ stdout = <<>>
    /\ pending = <<>>
    /\ at = "new"
    /\ instruction = 0
    /\ result = "Pending"
    /\ pre = VM
    /\ fetched_at = PC_START
    /\ steps = 0
    /\ overflow_checks \in BOOLEAN
    /\ call = NoCall
    /\ NoHost

\* vm.read_image(path)?
ReadImage(file) ==
    /\ at = "new"
    /\ steps < MaxLoads
    /\ LET s == read_image(VM, file) IN
       /\ Install(s)
       /\ result' = Outcome(s)
       /\ at' = IF Failed(s) THEN "load_failed" ELSE "new"
    /\ pre' = VM
    /\ call' = [fn |-> "read_image", file |-> file]
    /\ steps' = steps + 1
    /\ UNCHANGED <<instruction, fetched_at, overflow_checks>>
    /\ UNCHANGED host

\* run: self.running = true, and the first test of the loop condition
Run ==
    /\ at = "new"
    /\ running' = TRUE
    /\ at' = "fetch"
    /\ steps' = 0
    /\ result' = "Pending"
    /\ UNCHANGED <<registers, pc, cond, memory, stdin, stdout, pending,
                   instruction, pre, fetched_at, overflow_checks, call>>
    /\ UNCHANGED host

\* let instr = self.mem_read(self.pc.into())?
Fetch ==
    /\ at = "fetch"
    /\ steps < MaxSteps
    /\ LET instr == mem_read(VM, pc) IN
       /\ Install(instr.st)
       /\ instruction' = instr.val
       /\ result' = IF Failed(instr.st) THEN instr.st.err ELSE result
       /\ at' = IF Failed(instr.st) THEN "run_returned" ELSE "incr"
    /\ fetched_at' = pc
    /\ steps' = steps + 1
    /\ UNCHANGED <<pre, overflow_checks, call>>
    /\ UNCHANGED host

\* Mutant: the instruction is executed before the PC is incremented.
IncrementPC_skipped ==
    /\ at = "incr"
    /\ at' = "exec"
    /\ UNCHANGED <<registers, pc, cond, running, memory, stdin, stdout, pending,
                   instruction, result, pre, fetched_at, steps, overflow_checks,
                   call>>
    /\ UNCHANGED host

\* Mutant: the PC is incremented with wrapping_add.
IncrementPC_wrapping ==
    /\ at = "incr"
    /\ pc' = wrapping_add(pc, 1)
    /\ at' = "exec"
    /\ UNCHANGED <<registers, cond, running, memory, stdin, stdout, pending,
                   instruction, result, pre, fetched_at, steps, overflow_checks,
                   call>>
    /\ UNCHANGED host

\* self.pc = self.pc.checked_add(1).ok_or(MemoryIndex)?
IncrementPC ==
    /\ at = "incr"
    /\ IF pc + 1 >= U16
       THEN /\ result' = "MemoryIndex"
            /\ at' = "run_returned"
            /\ pc' = pc
       ELSE /\ pc' = pc + 1
            /\ at' = "exec"
            /\ result' = result
    /\ UNCHANGED <<registers, cond, running, memory, stdin, stdout, pending,
                   instruction, pre, fetched_at, steps, overflow_checks, call>>
    /\ UNCHANGED host

\* self.execute(instr)?, and the next test of the loop condition
Execute ==
    /\ at = "exec"
    /\ LET s == execute(VM, instruction) IN
       /\ Install(s)
       /\ result' = IF Failed(s) THEN s.err
                    ELSE IF s.running THEN result ELSE "Ok"
       /\ at' = IF Failed(s) \/ ~s.running THEN "run_returned" ELSE "fetch"
    /\ pre' = VM
    /\ UNCHANGED <<instruction, fetched_at, steps, overflow_checks, call>>
    /\ UNCHANGED host

Next ==
    \/ \E file \in Files : ReadImage(file)
    \/ Run
    \/ Fetch
    \/ IncrementPC
    \/ Execute

Spec == Init /\ [][Next]_vars

-----------------------------------------------------------------------------
(* The host program: main, set_termios, restore_termios *)

\* "Unable to get termios configuration" and the newline of println!
UnableToGet ==
    <<85, 110, 97, 98, 108, 101, 32, 116, 111, 32, 103, 101, 116, 32, 116,
      101, 114, 109, 105, 111, 115, 32, 99, 111, 110, 102, 105, 103, 117,
      114, 97, 116, 105, 111, 110, 10>>

\* "Unable to restore configuration, error {e}" with e an I/O error (EIO)
UnableToRestore ==
    <<85, 110, 97, 98, 108, 101, 32, 116, 111, 32, 114, 101, 115, 116, 111,
      114, 101, 32, 99, 111, 110, 102, 105, 103, 117, 114, 97, 116, 105,
      111, 110, 44, 32, 101, 114, 114, 111, 114, 32, 73, 110, 112, 117,
      116, 47, 111, 117, 116, 112, 117, 116, 32, 101, 114, 114, 111, 114,
      32, 40, 111, 115, 32, 101, 114, 114, 111, 114, 32, 53, 41, 10>>

\* "make run FILEPATH=<path/to/file>"
Usage ==
    <<109, 97, 107, 101, 32, 114, 117, 110, 32, 70, 73, 76, 69, 80, 65, 84,
      72, 61, 60, 112, 97, 116, 104, 47, 116, 111, 47, 102, 105, 108, 101,
      62, 10>>

\* env::args(): the program's name and up to two arguments
ArgCounts == 1 .. 3

InitMain ==
    /\ New
    /\ stdin \in Inputs
    /\ stdout = <<>>
    /\ pending = <<>>
    /\ at = "main"
    /\ instruction = 0
    /\ result = "Pending"
    /\ pre = VM
    /\ fetched_at = PC_START
    /\ steps = 0
    /\ overflow_checks \in BOOLEAN
    /\ call = NoCall
    /\ termios \in SUBSET {ICANON, ECHO}
    /\ original_termios = None
    /\ exit_code = None

\* The process ends: std::process::exit(code), or main returns.  The
\* runtime flushes stdout on the way out.
Exit(s, code) ==
    /\ Install(flush(s))
    /\ at' = "exited"
    /\ exit_code' = Some(code)

\* let original_termios = set_termios();
SetTermios(got, applied) ==
    /\ at = "main"
    /\ IF ~got
       THEN /\ Exit(print(VM, UnableToGet), 1)
            /\ UNCHANGED <<termios, original_termios>>
       ELSE IF ~applied
       THEN /\ Exit(print(VM, UnableToRestore), 1)
            /\ UNCHANGED <<termios, original_termios>>
       ELSE /\ termios' = termios \ {ICANON, ECHO}
            /\ original_termios' = Some(termios)
            /\ at' = "args"
            /\ UNCHANGED <<registers, pc, cond, running, memory, stdin, stdout,
                           pending, exit_code>>
    /\ UNCHANGED <<instruction, result, pre, fetched_at, steps, overflow_checks,
                   call>>

\* if args.len() != 2 { println!(..); exit(1) }; let mut vm = VM::new();
Args(len) ==
    /\ at = "args"
    /\ IF len # 2
       THEN Exit(print(VM, Usage), 1)
       ELSE /\ at' = "vm"
            /\ UNCHANGED <<registers, pc, cond, running, memory, stdin, stdout,
                           pending, exit_code>>
    /\ UNCHANGED <<instruction, result, pre, fetched_at, steps, overflow_checks,
                   call, termios, original_termios>>

\* vm.read_image(file_path)?
MainReadImage(file) ==
    /\ at = "vm"
    /\ LET s == read_image(VM, file) IN
       /\ result' = Outcome(s)
       /\ IF Failed(s)
          THEN Exit(s, 1)
          ELSE Install(s) /\ at' = "new" /\ UNCHANGED exit_code
    /\ pre' = VM
    /\ call' = [fn |-> "read_image", file |-> file]
    /\ UNCHANGED <<instruction, fetched_at, steps, overflow_checks, termios,
                   original_termios>>

\* if let Err(e) = vm.run() { eprintln!(..); std::process::exit(1) }
RunFailed ==
    /\ at = "run_returned"
    /\ result # "Ok"
    /\ Exit(VM, 1)
    /\ UNCHANGED <<instruction, result, pre, fetched_at, steps, overflow_checks,
                   call, termios, original_termios>>

\* restore_termios(original_termios); Ok(())
RestoreTermios(applied) ==
    /\ at = "run_returned"
    /\ result = "Ok"
    /\ IF applied
       THEN /\ termios' = original_termios[1]
            /\ Exit(VM, 0)
       ELSE /\ Exit(print(VM, UnableToRestore), 1)
            /\ UNCHANGED termios
    /\ UNCHANGED <<instruction, result, pre, fetched_at, steps, overflow_checks,
                   call, original_termios>>

NextMain ==
    \/ \E got, applied \in BOOLEAN : SetTermios(got, applied)
    \/ \E len \in ArgCounts : Args(len)
    \/ \E file \in Files : MainReadImage(file)
    \/ Run
    \/ Fetch
    \/ IncrementPC
    \/ Execute
    \/ RunFailed
    \/ \E applied \in BOOLEAN : RestoreTermios(applied)

SpecMain == InitMain /\ [][NextMain]_vars

-----------------------------------------------------------------------------
(* execute called directly on a machine, as the unit tests of vm.rs do:    *)
(* the machine and the instruction word are drawn from bounded sets, and   *)
(* the same word is executed up to MaxCalls times.                         *)

Compose(op, dr, sr, low) == op * 4096 + dr * 512 + sr * 64 + low

AluInstrs ==
    {Compose(op, dr, sr, low) : op \in {1, 5}, dr \in {0, 1, 4, 7},
                                sr \in {0, 1, 7},
                                low \in {0, 1, 2, 7, 31, 32, 33, 47, 48, 63}}

NotInstrs == {Compose(9, dr, sr, 63) : dr \in 0 .. 7, sr \in 0 .. 7}

ControlInstrs ==
    {Compose(0, mask, 0, 0) + off : mask \in 0 .. 7,
                                    off \in {0, 1, 10, 255, 256, 511}}
    \cup {Compose(12, 0, base, 0) : base \in {0, 1, 7}}
    \cup {Compose(4, 0, base, 0) : base \in {0, 1, 7}}
    \cup {Compose(4, 4, 0, 0) + off : off \in {0, 1, 34, 1023, 1024, 2047}}

PcRelativeInstrs ==
    {Compose(op, dr, 0, 0) + off : op \in {2, 3, 10, 11, 14}, dr \in {0, 1, 7},
                                   off \in {0, 1, 2, 255, 256, 511}}

BaseOffsetInstrs ==
    {Compose(op, dr, base, off) : op \in {6, 7}, dr \in {0, 1, 7},
                                  base \in {0, 1, 7}, off \in {0, 1, 31, 32, 63}}

TrapInstrs ==
    {Compose(15, 0, 0, 0) + high * 256 + vector :
        high \in {0, 15}, vector \in {0, 31, 32, 33, 34, 35, 36, 37, 38, 255}}

UnusedInstrs == {Compose(op, 0, 0, 0) + rest : op \in {8, 13}, rest \in {0, 4095}}

MemoryInstrs == PcRelativeInstrs \cup BaseOffsetInstrs \cup TrapInstrs

TestInstrs ==
    AluInstrs \cup NotInstrs \cup ControlInstrs \cup MemoryInstrs \cup UnusedInstrs

Registers(r0, r1, r2, r3, r4, r5, r6, r7) ==
    [i \in 0 .. (TOTAL_REGISTERS - 1) |-> <<r0, r1, r2, r3, r4, r5, r6, r7>>[i + 1]]

RegisterFiles ==
    { Registers(\h4000, 1, 3, \h0F0F, \h7FFF, \h8000, \hFE00, \hFFFF),
      Registers(\h0041, \hFFFF, \hFFFE, 0, \h8000, \h00FF, \h0100, \h3000),
      Registers(\hFFFE, \hFE00, \h4000, 5, 0, \hFFFF, 1, \hFE02) }

EmptyMemory == <<>>

\* Pointers (one to the keyboard status register), two strings, a string
\* that runs to the last address, and stale words in both keyboard registers.
DataMemory ==
    (\h0041 :> \h6948) @@ (\h0042 :> \h0021)
    @@ (\h3000 :> \h3002) @@ (\h3001 :> \hFE00) @@ (\h3002 :> \h5353)
    @@ (\h4000 :> \h0048) @@ (\h4001 :> \h00E9)
    @@ (\hFE00 :> \h1234) @@ (\hFE02 :> \h0007)
    @@ (\hFFFE :> \h0041) @@ (\hFFFF :> \h0042)

\* The machines memory instructions and traps are tried on: where the PC
\* is, what memory holds and what the host input holds.
Machine(p, m, in) == [pc |-> p, memory |-> m, stdin |-> in]

Machines ==
    { Machine(PC_START, EmptyMemory, <<>>),
      Machine(PC_START, DataMemory, <<>>),
      Machine(PC_START, DataMemory, <<65, 0>>),
      Machine(PC_START, DataMemory, <<0, 66>>),
      Machine(MR_KBSR, DataMemory, <<65, 0>>),
      Machine(MR_KBSR, EmptyMemory, <<0, 66>>),
      Machine(0, DataMemory, <<65, 0>>),
      Machine(\hFFFF, DataMemory, <<0, 66>>) }

ProgramCounters == {0, PC_START, \hFFFF}

InitExecute ==
    /\ instruction \in TestInstrs
    /\ registers \in RegisterFiles
    /\ cond \in {"Pos", "Zro", "Neg"}
    /\ running = TRUE
    /\ IF instruction \in MemoryInstrs
       THEN \E m \in Machines :
                pc = m.pc /\ memory = m.memory /\ stdin = m.stdin
       ELSE /\ pc \in (IF instruction \in ControlInstrs
                       THEN ProgramCounters ELSE {PC_START})
            /\ memory = EmptyMemory
            /\ stdin = <<>>
    /\ stdout = <<>>
    /\ pending = <<>>
    /\ at = "execute"
    /\ result = "Pending"
    /\ pre = VM
    /\ fetched_at = PC_START
    /\ steps = 0
    /\ overflow_checks \in BOOLEAN
    /\ call = [fn |-> "execute", initial |-> VM]
    /\ NoHost

\* vm.execute(instr)?
ExecuteCall ==
    /\ at = "execute"
    /\ steps < MaxCalls
    /\ LET s == execute(VM, instruction) IN
       /\ Install(s)
       /\ result' = Outcome(s)
       /\ at' = IF Failed(s) THEN "execute_failed" ELSE "execute"
    /\ pre' = VM
    /\ steps' = steps + 1
    /\ UNCHANGED <<instruction, fetched_at, overflow_checks, call>>
    /\ UNCHANGED host

SpecExecute == InitExecute /\ [][ExecuteCall]_vars

-----------------------------------------------------------------------------
(* read_image called once on a memory that earlier loads or stores may     *)
(* have filled, with files drawn from bounded sets: an origin, up to       *)
(* MaxWords words, and possibly a trailing byte; the files too short to    *)
(* hold an origin; and a file that cannot be read.                         *)

Origins == {0, PC_START, \hFFFE, \hFFFF}

LoadWords == {0, \h1234, \hFFFF}

WordLists == UNION {[1 .. k -> LoadWords] : k \in 0 .. MaxWords}

\* The bytes the comment of tests::correct_image_read lists.
TestImageBytes == <<\h00, \h30, \hF2, \hF3, \hF4, \hF5, \hF6, \hF7>>

LoadFiles ==
    {File(Image(origin, words) \o tail) :
        origin \in Origins, words \in WordLists, tail \in {<<>>, <<\hAB>>}}
    \cup {File(<<>>), File(<<\h30>>), [readable |-> FALSE, content |-> <<>>]}
    \cup {File(TestImageBytes), File(Image(\h3000, <<\hF3F2, \hF5F4, \hF7F6>>))}

PriorMemories ==
    { EmptyMemory,
      (0 :> \h0BAD) @@ (\h3000 :> \hF025) @@ (\h3001 :> 7) @@ (\hFFFF :> \h0BAD),
      DataMemory }

InitLoad ==
    /\ registers = [i \in 0 .. (TOTAL_REGISTERS - 1) |-> 0]
    /\ pc = PC_START
    /\ cond = "Zro"
    /\ running = FALSE
    /\ memory \in PriorMemories
    /\ stdin = <<>>
    /\ stdout = <<>>
    /\ pending = <<>>
    /\ at = "load"
    /\ instruction = 0
    /\ result = "Pending"
    /\ pre = VM
    /\ fetched_at = PC_START
    /\ steps = 0
    /\ overflow_checks \in BOOLEAN
    /\ call \in {[fn |-> "read_image", file |-> file] : file \in LoadFiles}
    /\ NoHost

\* memory.read_image(path)
LoadCall ==
    /\ at = "load"
    /\ LET s == read_image(VM, call.file) IN
       /\ Install(s)
       /\ result' = Outcome(s)
    /\ at' = "loaded"
    /\ pre' = VM
    /\ steps' = steps + 1
    /\ UNCHANGED <<instruction, fetched_at, overflow_checks, call>>
    /\ UNCHANGED host

SpecLoad == InitLoad /\ [][LoadCall]_vars

-----------------------------------------------------------------------------
(* sign_extend called with values and bit counts drawn from bounded sets *)

MaxBitCount == 17

SignExtendValues ==
    {Pow2(k) : k \in 0 .. 15} \cup {Pow2(k) - 1 : k \in 0 .. 16}
    \cup {\h0F0F, \hABCD, \h8001, \h0120, \hFFF0}

InitSignExtend ==
    /\ New
    /\ stdin = <<>>
    /\ stdout = <<>>
    /\ pending = <<>>
    /\ at = "sign_extend"
    /\ instruction = 0
    /\ result = "Pending"
    /\ pre = VM
    /\ fetched_at = PC_START
    /\ steps = 0
    /\ overflow_checks \in BOOLEAN
    /\ call \in {[fn |-> "sign_extend", value |-> value, bit_count |-> bit_count,
                  ret |-> Ok(0)] :
                     value \in SignExtendValues, bit_count \in 0 .. MaxBitCount}
    /\ NoHost

SignExtendCall ==
    /\ at = "sign_extend"
    /\ call' = [call EXCEPT !.ret = sign_extend(call.value, call.bit_count)]
    /\ at' = "sign_extended"
    /\ UNCHANGED <<registers, pc, cond, running, memory, stdin, stdout, pending,
                   instruction, result, pre, fetched_at, steps, overflow_checks>>
    /\ UNCHANGED host

SpecSignExtend == InitSignExtend /\ [][SignExtendCall]_vars

-----------------------------------------------------------------------------
(* Memory::mem_read called directly, up to MaxReads times, on memories     *)
(* with and without stale keyboard registers, for addresses at and around  *)
(* the keyboard registers and one index past the end of the memory.        *)

MaxReads == 2

ReadIndexes ==
    {0, \h0041, PC_START, \hFDFF, MR_KBSR, \hFE01, MR_KBDR, \hFFFF, MEMORY_MAX}

ReadInputs == {<<>>, <<0, 66>>, <<65, 0>>, <<\hFF>>}

InitMemRead ==
    /\ registers = [i \in 0 .. (TOTAL_REGISTERS - 1) |-> 0]
    /\ pc = PC_START
    /\ cond = "Zro"
    /\ running = FALSE
    /\ memory \in PriorMemories
    /\ stdin \in ReadInputs
    /\ stdout = <<>>
    /\ pending = <<>>
    /\ at = "mem_read"
    /\ instruction = 0
    /\ result = "Pending"
    /\ pre = VM
    /\ fetched_at = PC_START
    /\ steps = 0
    /\ overflow_checks \in BOOLEAN
    /\ call \in {[fn |-> "mem_read", index |-> index, ret |-> 0] :
                    index \in ReadIndexes}
    /\ NoHost

\* memory.mem_read(index)
MemReadCall ==
    /\ at = "mem_read"
    /\ steps < MaxReads
    /\ LET value == mem_read(VM, call.index) IN
       /\ Install(value.st)
       /\ result' = Outcome(value.st)
       /\ call' = [call EXCEPT !.ret = value.val]
       /\ at' = IF Failed(value.st) THEN "mem_read_failed" ELSE "mem_read"
    /\ pre' = VM
    /\ steps' = steps + 1
    /\ UNCHANGED <<instruction, fetched_at, overflow_checks>>
    /\ UNCHANGED host

SpecMemRead == InitMemRead /\ [][MemReadCall]_vars

-----------------------------------------------------------------------------
(* tests::combined_register_instructions: the machine the test sets up,    *)
(* and execute called on the test's instructions in order.  The runs also  *)
(* cover every selection of the instructions, kept in the test's order.    *)

CombinedInstructions ==
    <<\h1042,   \* ADD R0, R1, R2
      \h502F,   \* AND R0, R0, #15
      \h0242,   \* BR+ 0x42
      \hC040,   \* JMP R1
      \h4822,   \* JSR #0x22
      \h2E01,   \* LD R7, #1
      \h6C82,   \* LDR R6, R2, #2
      \hBC22>>  \* STI R6, #0x22

CombinedPrograms ==
    {SelectSeq(CombinedInstructions, LAMBDA i : i \in chosen) :
        chosen \in SUBSET {CombinedInstructions[k] : k \in 1 .. 8}}

CombinedMemory ==
    (\hABCE :> \h4242) @@ (\hCDCF :> \h5353) @@ (\hABEF :> \h3000)

InitCombined ==
    /\ registers = Registers(0, \hABAB, \hCDCD, 0, 0, 0, 0, 0)
    /\ pc = PC_START
    /\ cond = "Zro"
    /\ running = FALSE
    /\ memory = CombinedMemory
    /\ stdin = <<>>
    /\ stdout = <<>>
    /\ pending = <<>>
    /\ at = "combined"
    /\ instruction = 0
    /\ result = "Pending"
    /\ pre = VM
    /\ fetched_at = PC_START
    /\ steps = 0
    /\ overflow_checks \in BOOLEAN
    /\ call \in {[fn |-> "execute", program |-> program] :
                    program \in CombinedPrograms}
    /\ NoHost

\* for instr in instructions { vm.execute(instr)?; }
CombinedCall ==
    /\ at = "combined"
    /\ steps < Len(call.program)
    /\ LET instr == call.program[steps + 1]
           s == execute(VM, instr)
       IN  /\ Install(s)
           /\ result' = Outcome(s)
           /\ instruction' = instr
           /\ at' = IF Failed(s) THEN "combined_failed" ELSE "combined"
    /\ pre' = VM
    /\ steps' = steps + 1
    /\ UNCHANGED <<fetched_at, overflow_checks, call>>
    /\ UNCHANGED host

SpecCombined == InitCombined /\ [][CombinedCall]_vars

-----------------------------------------------------------------------------
(* The six TRAP routines, each executed up to MaxTraps times through       *)
(* execute, for R0 values that are characters of every range and           *)
(* addresses of strings: plain, with a character above 127, with a word    *)
(* above 255 after a newline, packed two to a word, running into the       *)
(* keyboard status register, and running to the last address.              *)

MaxTraps == 2

TrapVectors == {\hF020, \hF021, \hF022, \hF023, \hF024, \hF025}

TrapR0 ==
    {0, NewLine, \h41, \h7F, \h80, \hE9, \hFF, \h100,
     \h4000, \h5000, \h6000, \hFDFF, \hFFFE}

TrapMemory ==
    (0 :> \h005A) @@ (\h0041 :> \h6948) @@ (\h0042 :> \h0021)
    @@ (\h4000 :> \h0048) @@ (\h4001 :> \h00E9)
    @@ (\h5000 :> \h0041) @@ (\h5001 :> \h000A) @@ (\h5002 :> \h0042)
    @@ (\h5003 :> \h0141) @@ (\h5004 :> \h0043)
    @@ (\h6000 :> \h0048) @@ (\h6001 :> \h0069)
    @@ (\hFDFF :> \h004B) @@ (\hFE00 :> \h1234) @@ (\hFE02 :> \h0007)
    @@ (\hFFFE :> \h0041) @@ (\hFFFF :> \h0042)

TrapInputs == {<<>>, <<0, 66>>, <<65, 0>>, <<200>>}

InitTrap ==
    /\ instruction \in TrapVectors
    /\ \E r0 \in TrapR0 : registers = Registers(r0, 1, 2, 3, 4, 5, 6, \hFFFF)
    /\ pc = PC_START
    /\ cond \in {"Pos", "Zro", "Neg"}
    /\ running = TRUE
    /\ memory \in {EmptyMemory, TrapMemory}
    /\ stdin \in TrapInputs
    /\ stdout = <<>>
    /\ pending = <<>>
    /\ at = "trap"
    /\ result = "Pending"
    /\ pre = VM
    /\ fetched_at = PC_START
    /\ steps = 0
    /\ overflow_checks \in BOOLEAN
    /\ call = [fn |-> "execute", initial |-> VM]
    /\ NoHost

\* vm.execute(instr)? with a TRAP instruction
TrapCall ==
    /\ at = "trap"
    /\ steps < MaxTraps
    /\ LET s == execute(VM, instruction) IN
       /\ Install(s)
       /\ result' = Outcome(s)
       /\ at' = IF Failed(s) THEN "trap_failed" ELSE "trap"
    /\ pre' = VM
    /\ steps' = steps + 1
    /\ UNCHANGED <<instruction, fetched_at, overflow_checks, call>>
    /\ UNCHANGED host

SpecTrap == InitTrap /\ [][TrapCall]_vars

-----------------------------------------------------------------------------
(* execute decoding every instruction word *)

\* Every 16-bit instruction word.
AllInstrs == 0 .. (U16 - 1)

InitDecode ==
    /\ NoHost
    /\ instruction \in AllInstrs
    /\ registers = Registers(\h4000, 1, 3, \h0F0F, \h7FFF, \h8000, \hFE00, \hFFFF)
    /\ pc = PC_START
    /\ cond = "Zro"
    /\ running = TRUE
    /\ memory = DataMemory
    /\ stdin = <<65, 0>>
    /\ stdout = <<>>
    /\ pending = <<>>
    /\ at = "decode"
    /\ result = "Pending"
    /\ pre = VM
    /\ fetched_at = PC_START
    /\ steps = 0
    /\ overflow_checks \in BOOLEAN
    /\ call = [fn |-> "execute", initial |-> VM]

\* vm.execute(instr)
DecodeCall ==
    /\ at = "decode"
    /\ LET s == execute(VM, instruction) IN
       /\ Install(s)
       /\ result' = Outcome(s)
       /\ at' = IF Failed(s) THEN "decode_failed" ELSE "decoded"
    /\ pre' = VM
    /\ steps' = steps + 1
    /\ UNCHANGED <<instruction, fetched_at, overflow_checks, call>>
    /\ UNCHANGED host

SpecDecode == InitDecode /\ [][DecodeCall]_vars

-----------------------------------------------------------------------------
(* run over programs that store to the keyboard status register and read it *)

\* LD R1 and R0, STR and LDR at R0 = 0xFE00, STI and LDI through a pointer
\* to 0xFE00, TRAP PUTS at R0, JMP R0: the next fetch is at 0xFE00.
ProgramStatus ==
    Image(\h3000, <<\h2208, \h2006, \h7200, \h6400, \hB203, \hA602, \hF022,
                    \hC000, \hFE00, \h1234>>)

\* Jump to 0xFDFC.
ProgramJump == Image(\h3000, <<\h2001, \hC000, \hFDFC>>)

\* ST and LD at 0xFE00, LEA R0 of 0xFE00 and a TRAP: run reaches 0xFE00.
ProgramBelowStatus(trap_vector) ==
    Image(\hFDFC, <<\h3003, \h2402, \hE001, \hF000 + trap_vector>>)

StatusFiles ==
    {File(ProgramStatus), File(ProgramJump), File(ProgramBelowStatus(\h22)),
     File(ProgramBelowStatus(\h24))}

StatusInputs ==
    {<<>>, <<65, 0, 0, 66>>, <<0, 66, 0, 0>>, <<65, 66, 67, 0>>, <<0, 0, 66, 0>>}

InitStatus ==
    /\ NoHost
    /\ New
    /\ stdin \in StatusInputs
    /\ stdout = <<>>
    /\ pending = <<>>
    /\ at = "new"
    /\ instruction = 0
    /\ result = "Pending"
    /\ pre = VM
    /\ fetched_at = PC_START
    /\ steps = 0
    /\ overflow_checks \in BOOLEAN
    /\ call = NoCall

NextStatus ==
    \/ \E file \in StatusFiles : ReadImage(file)
    \/ Run
    \/ Fetch
    \/ IncrementPC
    \/ Execute

SpecStatus == InitStatus /\ [][NextStatus]_vars

-----------------------------------------------------------------------------
(* run on a memory that holds no program *)

\* An image with no data words: an origin only.
EmptyImages == {File(Image(origin, <<>>)) : origin \in {0, PC_START, \hFFFF}}

ZeroInputs == {<<>>, <<0>>, <<65>>}

InitZero ==
    /\ NoHost
    /\ New
    /\ stdin \in ZeroInputs
    /\ stdout = <<>>
    /\ pending = <<>>
    /\ at = "new"
    /\ instruction = 0
    /\ result = "Pending"
    /\ pre = VM
    /\ fetched_at = PC_START
    /\ steps = 0
    /\ overflow_checks \in BOOLEAN
    /\ call = NoCall

\* The loop body without the increment of the PC: on a zero memory run
\* fetches the same word for ever.
run_step_no_increment(s) ==
    LET instr == mem_read(s, s.pc) IN
    IF Failed(instr.st) THEN instr.st
    ELSE execute(instr.st, instr.val)

\* The body of `while self.running`: fetch, increment the PC, execute.
run_step(s) ==
    LET instr == mem_read(s, s.pc) IN
    IF Failed(instr.st) THEN instr.st
    ELSE IF instr.st.pc + 1 >= U16 THEN Fail(instr.st, "MemoryIndex")
         ELSE execute([instr.st EXCEPT !.pc = @ + 1], instr.val)

\* One pass of the loop of run, and the next test of its condition.
RunStep ==
    /\ at = "fetch"
    /\ LET s == run_step(VM) IN
       /\ Install(s)
       /\ result' = IF Failed(s) THEN s.err
                    ELSE IF s.running THEN result ELSE "Ok"
       /\ at' = IF Failed(s) \/ ~s.running THEN "run_returned" ELSE "fetch"
    /\ fetched_at' = pc
    /\ steps' = steps + 1
    /\ UNCHANGED <<instruction, pre, overflow_checks, call>>
    /\ UNCHANGED host

\* vm.read_image(path)? of an image with no data words
ReadEmptyImage(file) ==
    /\ at = "new"
    /\ steps < MaxLoads
    /\ LET s == read_image(VM, file) IN
       /\ Install(s)
       /\ result' = Outcome(s)
       /\ at' = IF Failed(s) THEN "load_failed" ELSE "new"
    /\ steps' = steps + 1
    /\ UNCHANGED <<instruction, pre, fetched_at, overflow_checks, call>>
    /\ UNCHANGED host

NextZero ==
    \/ \E file \in EmptyImages : ReadEmptyImage(file)
    \/ Run
    \/ RunStep

SpecZero == InitZero /\ [][NextZero]_vars

-----------------------------------------------------------------------------
(* The claims.  Their side of each statement is plain integer arithmetic   *)
(* on the fields of the instruction word.                                  *)

OpOf(i) == i \div 4096
FieldDR(i) == (i \div 512) % 8
FieldSR1(i) == (i \div 64) % 8
FieldSR2(i) == i % 8

\* The low n bits of i read as a signed n-bit integer.
SignedField(i, n) ==
    LET low == i % Pow2(n) IN
    IF low >= Pow2(n - 1) THEN low - Pow2(n) ELSE low

\* An integer as a 16-bit word.
Wrap(x) == (x + U16) % U16

IsHalt(i) == OpOf(i) = 15 /\ i % 256 = 37

ErrorKinds ==
    {"ReadingFile", "ConcatenatingBytes", "Overflow", "MemoryIndex",
     "InvalidOpcode", "InvalidRegister", "InvalidTrapCode", "StandardIO",
     "InvalidCharacter"}

\* run has just executed `instruction` successfully.
RunExecuted ==
    steps > 0 /\ (at = "fetch" \/ (at = "run_returned" /\ result = "Ok"))

BranchTaken(flag, i) ==
    \/ flag = "Neg" /\ (i \div 2048) % 2 = 1
    \/ flag = "Zro" /\ (i \div 1024) % 2 = 1
    \/ flag = "Pos" /\ (i \div 512) % 2 = 1

\* C1: in run, the instruction fetched from address A is executed with
\* PC = A + 1: LEA, LD, LDI, ST, STI, BR and JSR compute their addresses from
\* A + 1, and JSR and TRAP store A + 1 in R7.
C1_ExecuteSeesIncrementedPc ==
    LET next_pc == fetched_at + 1
        i == instruction
        target9 == Wrap(next_pc + SignedField(i, 9))
        target11 == Wrap(next_pc + SignedField(i, 11))
    IN  /\ at = "exec" => pc = next_pc
        /\ RunExecuted =>
            /\ pre.pc = next_pc
            /\ OpOf(i) = 14 => registers[FieldDR(i)] = target9
            /\ OpOf(i) = 2 => registers[FieldDR(i)] = Cell(memory, target9)
            /\ OpOf(i) = 10 /\ target9 # MR_KBSR =>
                   registers[FieldDR(i)] = Cell(memory, Cell(pre.memory, target9))
            /\ OpOf(i) = 3 => Cell(memory, target9) = pre.registers[FieldDR(i)]
            /\ OpOf(i) = 11 /\ target9 # MR_KBSR =>
                   Cell(memory, Cell(pre.memory, target9)) = pre.registers[FieldDR(i)]
            /\ OpOf(i) = 0 =>
                   pc = IF BranchTaken(pre.cond, i) THEN target9 ELSE next_pc
            /\ OpOf(i) = 4 =>
                   /\ registers[7] = next_pc
                   /\ (i \div 2048) % 2 = 1 => pc = target11
            /\ OpOf(i) = 15 => registers[7] = next_pc

\* C1 witness: run executed the JSR fetched from 0x3002, which left 0x3003
\* in R7 and jumped one word past it.
C1_Witness ==
    /\ RunExecuted
    /\ OpOf(instruction) = 4
    /\ fetched_at = 12290
    /\ registers[7] = 12291
    /\ pc = 12292

C2_State ==
    /\ at \in {"fetch", "incr", "exec"} => running
    /\ at = "fetch" /\ steps > 0 => ~IsHalt(instruction)
    /\ at = "run_returned" /\ result = "Ok" =>
           ~running /\ pre.running /\ IsHalt(instruction)
    /\ at = "run_returned" /\ result # "Ok" => running /\ result \in ErrorKinds

\* C2: run sets running on entry and keeps it set while it loops; it
\* returns Ok exactly after executing TRAP HALT, which clears running, or it
\* returns the error of a failing step with running still set; once it has
\* returned nothing more is fetched or executed.
C2_RunExits == [](C2_State) /\ [][at # "run_returned"]_vars

\* C2 witness: run returned Ok after HALT, which printed "HALT\n".
C2_Witness ==
    /\ at = "run_returned"
    /\ result = "Ok"
    /\ ~running
    /\ steps >= 2
    /\ stdout = Halt

\* C3 as stated: the fetch step advances PC by 1 modulo 2^16 and goes on to
\* execute, also from PC = 0xFFFF.
C3_Original ==
    [][at = "incr" => pc' = (pc + 1) % U16 /\ at' = "exec"]_vars

\* C3 amended: the fetch step advances PC by 1 from every PC below 0xFFFF;
\* after the fetch at PC = 0xFFFF the increment fails with MemoryIndex: PC
\* stays 0xFFFF, the fetched instruction is not executed and run returns.
C3_IncrementChecked ==
    [][at = "incr" =>
         IF pc = 65535
         THEN /\ pc' = pc
              /\ at' = "run_returned"
              /\ result' = "MemoryIndex"
              /\ UNCHANGED <<registers, cond, running, memory, stdin, stdout,
                             pending>>
         ELSE /\ pc' = pc + 1
              /\ at' = "exec"
              /\ result' = result]_vars

\* C3 witness: run fetched the ADD R3,R3,#1 loaded at 0xFFFF and returned
\* MemoryIndex without executing it.
C3_Witness ==
    /\ at = "run_returned"
    /\ result = "MemoryIndex"
    /\ fetched_at = 65535
    /\ pc = 65535
    /\ instruction = 5857
    /\ registers[3] = 0

\* execute has been called on `instruction` at least once; `pre` is the
\* machine the last call started from.
Executed == at \in {"execute", "execute_failed"} /\ steps > 0

\* The address an indirect access goes through: the word mem_read gave for
\* target, which for the keyboard status register is the refreshed status.
Pointer(target) ==
    IF target = MR_KBSR THEN Cell(memory, MR_KBSR) ELSE Cell(pre.memory, target)

\* C4: LD, LDI, LDR, LEA, ST, STI, STR, BR and JSR compute their target as
\* (base + sign-extended offset) mod 2^16, a negative offset giving
\* base - |offset|, and none of them fails on the sum: the only failure any
\* of them has is a keyboard poll that finds no input, in LD, LDI, LDR, STI.
C4_WrappingAddresses ==
    LET i == instruction
        dr == FieldDR(i)
        target9 == Wrap(pre.pc + SignedField(i, 9))
        target11 == Wrap(pre.pc + SignedField(i, 11))
        target6 == Wrap(pre.registers[FieldSR1(i)] + SignedField(i, 6))
        ok == result = "Ok"
    IN  Executed /\ OpOf(i) \in {0, 2, 3, 4, 6, 7, 10, 11, 14} =>
        /\ result \in {"Ok", "StandardIO"}
        /\ OpOf(i) \in {0, 3, 4, 7, 14} => ok
        /\ OpOf(i) = 2 /\ ok => registers[dr] = Cell(memory, target9)
        /\ OpOf(i) = 2 /\ ~ok => target9 = MR_KBSR
        /\ OpOf(i) = 10 /\ ok => registers[dr] = Cell(memory, Pointer(target9))
        /\ OpOf(i) = 10 /\ ~ok =>
               target9 = MR_KBSR \/ Cell(pre.memory, target9) = MR_KBSR
        /\ OpOf(i) = 6 /\ ok => registers[dr] = Cell(memory, target6)
        /\ OpOf(i) = 6 /\ ~ok => target6 = MR_KBSR
        /\ OpOf(i) = 14 => registers[dr] = target9
        /\ OpOf(i) = 3 => Cell(memory, target9) = pre.registers[dr]
        /\ OpOf(i) = 11 /\ ok =>
               Cell(memory, Pointer(target9)) = pre.registers[dr]
        /\ OpOf(i) = 11 /\ ~ok => target9 = MR_KBSR
        /\ OpOf(i) = 7 => Cell(memory, target6) = pre.registers[dr]
        /\ OpOf(i) = 0 =>
               pc = IF BranchTaken(pre.cond, i) THEN target9 ELSE pre.pc
        /\ OpOf(i) = 4 /\ (i \div 2048) % 2 = 1 => pc = target11

\* C4 witness: LD R1 with offset -1 executed at PC = 0 read the word at
\* 0xFFFF.
C4_Witness ==
    /\ Executed
    /\ steps = 1
    /\ instruction = Compose(2, 1, 0, 0) + 511
    /\ pre.pc = 0
    /\ result = "Ok"
    /\ registers[1] = 66
    /\ Cell(pre.memory, 65535) = 66

\* The condition flag that describes a 16-bit value.
FlagOf(value) ==
    IF value = 0 THEN "Zro" ELSE IF value >= 32768 THEN "Neg" ELSE "Pos"

\* C5: after ADD, AND, NOT, LEA, LD, LDR or LDI completes, cond is Zro iff
\* reg[DR] = 0, Neg iff bit 15 of reg[DR] is 1, and Pos otherwise, whatever
\* the instruction word and the state before.
C5_FlagsFollowDR ==
    Executed /\ result = "Ok" /\ OpOf(instruction) \in {1, 2, 5, 6, 9, 10, 14} =>
        cond = FlagOf(registers[FieldDR(instruction)])

\* C5 witness: an ADD that started with cond = Pos left a value with bit 15
\* set in DR and cond = Neg.
C5_Witness ==
    /\ Executed
    /\ result = "Ok"
    /\ OpOf(instruction) = 1
    /\ pre.cond = "Pos"
    /\ registers[FieldDR(instruction)] >= 32768
    /\ cond = "Neg"

\* C6 as stated: for every 16-bit value v and every bit count n in 1..16,
\* sign_extend(v, n) succeeds and returns the low n bits of v read as a
\* signed n-bit integer, as a 16-bit two's-complement word.
C6_Original ==
    at = "sign_extended" /\ call.bit_count \in 1 .. 16 =>
        call.ret = Ok(Wrap(SignedField(call.value, call.bit_count)))

\* The bitwise and of two 16-bit words, bit by bit.
AndOf(a, b) ==
    LET both(k) == IF (a \div Pow2(k)) % 2 = 1 /\ (b \div Pow2(k)) % 2 = 1
                   THEN Pow2(k) ELSE 0
        upto[k \in 0 .. 16] == IF k = 0 THEN 0 ELSE upto[k - 1] + both(k - 1)
    IN  upto[16]

\* The operand of ADD and AND: reg[SR2] when bit 5 is 0, imm5 sign-extended
\* to 16 bits when bit 5 is 1.
OperandOf(i, regs) ==
    IF (i \div 32) % 2 = 0 THEN regs[FieldSR2(i)] ELSE Wrap(SignedField(i, 5))

\* C7: ADD stores (SR1 + operand) mod 2^16 in DR and AND stores the bitwise
\* and of SR1 and operand in DR; no register other than DR, no memory cell
\* and not the PC is changed.
C7_AddAnd ==
    LET i == instruction
        sr1 == pre.registers[FieldSR1(i)]
        operand == OperandOf(i, pre.registers)
    IN  Executed /\ OpOf(i) \in {1, 5} =>
        /\ result = "Ok"
        /\ OpOf(i) = 1 => registers[FieldDR(i)] = (sr1 + operand) % U16
        /\ OpOf(i) = 5 => registers[FieldDR(i)] = AndOf(sr1, operand)
        /\ \A r \in 0 .. 7 : r # FieldDR(i) => registers[r] = pre.registers[r]
        /\ memory = pre.memory
        /\ pc = pre.pc

\* C7 witness: ADD R0, R7, #1 with R7 = 0xFFFF left 0 in R0 and R7 as it
\* was.
C7_Witness ==
    /\ Executed
    /\ steps = 1
    /\ result = "Ok"
    /\ instruction = Compose(1, 0, 7, 33)
    /\ pre.registers[7] = 65535
    /\ pre.registers[0] # 0
    /\ registers[0] = 0
    /\ registers[7] = 65535

\* ADD or AND with bit 5 set has been executed.
ImmediateMode(op) ==
    Executed /\ OpOf(instruction) = op /\ (instruction \div 32) % 2 = 1

\* C8 as stated: for ADD and for AND in immediate mode the value stored in
\* DR is (SR1 + imm5) mod 2^16.
C8_Original ==
    ImmediateMode(1) \/ ImmediateMode(5) =>
        registers[FieldDR(instruction)] =
            Wrap(pre.registers[FieldSR1(instruction)] + SignedField(instruction, 5))

\* C8 amended: in immediate mode ADD stores (SR1 + imm5) mod 2^16 in DR,
\* with imm5 read as a signed 5-bit number, for every SR1 value and every
\* imm5; AND stores the bitwise and of SR1 and the sign-extended imm5, not
\* the sum.
C8_ImmediateResult ==
    LET sr1 == pre.registers[FieldSR1(instruction)]
        imm5 == SignedField(instruction, 5)
    IN  /\ ImmediateMode(1) => registers[FieldDR(instruction)] = Wrap(sr1 + imm5)
        /\ ImmediateMode(5) =>
               registers[FieldDR(instruction)] = AndOf(sr1, Wrap(imm5))

\* C8 witness: AND R0, R7, #1 with R7 = 0xFFFF left 1 in R0, where the sum
\* is 0.
C8_Witness ==
    /\ ImmediateMode(5)
    /\ steps = 1
    /\ instruction = Compose(5, 0, 7, 33)
    /\ pre.registers[7] = 65535
    /\ registers[0] = 1

\* The same NOT instruction has been executed twice in a row, starting from
\* the machine call.initial.
TwoNots == Executed /\ steps = 2 /\ result = "Ok" /\ OpOf(instruction) = 9

\* C9 as stated: two consecutive NOT instructions with the same DR and the
\* same SR leave DR equal to the value SR held before the first, for every
\* DR and SR.
C9_Original ==
    TwoNots =>
        registers[FieldDR(instruction)] =
            call.initial.registers[FieldSR1(instruction)]

\* C9 amended: two consecutive NOT instructions with the same DR and the
\* same SR leave DR equal to the value SR held before the first when DR and
\* SR are the same register; when they differ SR is untouched and DR holds
\* the bitwise complement of SR after the second NOT as after the first.
C9_DoubleNot ==
    LET dr == FieldDR(instruction)
        sr == FieldSR1(instruction)
        original == call.initial.registers[sr]
    IN  TwoNots =>
        /\ dr = sr => registers[dr] = original
        /\ dr # sr => /\ registers[dr] = 65535 - original
                      /\ registers[sr] = original
                      /\ pre.registers[dr] = 65535 - original

\* C9 witness: NOT R4, R4 executed twice on R4 = 0x7FFF left 0x8000 after
\* the first and 0x7FFF after the second.
C9_Witness ==
    /\ TwoNots
    /\ instruction = Compose(9, 4, 4, 63)
    /\ call.initial.registers[4] = 32767
    /\ pre.registers[4] = 32768
    /\ registers[4] = 32767

\* The k-th 16-bit word of a byte sequence, big-endian, counting from 0.
BigEndianWord(bytes, k) == bytes[2 * k + 1] * 256 + bytes[2 * k + 2]

\* read_image has returned from a readable file that is an image: an
\* origin word followed by k >= 0 words, with origin + k <= 65536.
LoadedImage ==
    /\ at = "loaded"
    /\ call.file.readable
    /\ Len(call.file.content) >= 2
    /\ Len(call.file.content) % 2 = 0
    /\ BigEndianWord(call.file.content, 0) + (Len(call.file.content) \div 2 - 1)
           <= 65536

LoadedTestImage ==
    at = "loaded" /\ call.file = File(TestImageBytes) /\ pre.memory = EmptyMemory

LoadedOddImage ==
    /\ at = "loaded"
    /\ call.file.readable
    /\ Len(call.file.content) >= 3
    /\ Len(call.file.content) % 2 = 1

\* The load wrote exactly the k words that follow the origin word and left
\* every other cell as it was.
LoadedWords(content, k) ==
    LET origin == BigEndianWord(content, 0)
        written == origin .. (origin + k - 1)
    IN  /\ \A a \in written : Cell(memory, a) = BigEndianWord(content, a - origin + 1)
        /\ \A a \in (DOMAIN memory \cup DOMAIN pre.memory) \ written :
               Cell(memory, a) = Cell(pre.memory, a)

\* C12 as stated: when the image byte stream has an odd length of at least
\* 3, the load succeeds, ignores the last byte, and loads exactly the words
\* formed by the preceding complete 2-byte chunks.
C12_Original ==
    LoadedOddImage =>
        /\ result = "Ok"
        /\ LoadedWords(call.file.content, (Len(call.file.content) - 3) \div 2)

\* C12 amended: when the image byte stream has an odd length of at least 3
\* and the words of its complete 2-byte chunks fit between the origin and
\* 0xFFFF, the load succeeds, ignores the last byte, and loads exactly those
\* words; when they do not fit it fails with MemoryIndex as it does without
\* the last byte.
C12_TrailingByteIgnored ==
    LET content == call.file.content
        k == (Len(content) - 3) \div 2
    IN  LoadedOddImage =>
            IF BigEndianWord(content, 0) + k <= 65536
            THEN result = "Ok" /\ LoadedWords(content, k)
            ELSE result = "MemoryIndex"

\* C12 witness: origin 0x3000, the word 0x1234 and a trailing byte 0xAB
\* loaded over a memory holding 7 at 0x3001 wrote 0x1234 at 0x3000 and left
\* 0x3001 alone.
C12_Witness ==
    /\ LoadedOddImage
    /\ call.file.content = Image(12288, <<4660>>) \o <<171>>
    /\ result = "Ok"
    /\ Cell(memory, 12288) = 4660
    /\ Cell(pre.memory, 12289) = 7
    /\ Cell(memory, 12289) = 7

\* read_image has returned from a file it could read.
LoadedBytes == at = "loaded" /\ call.file.readable

\* C13 as stated: the load fails with ConcatenatingBytes whenever the stream
\* is malformed: when its length is odd or when it does not hold a complete
\* 2-byte origin.
C13_Original ==
    LoadedBytes /\ (Len(call.file.content) % 2 = 1 \/ Len(call.file.content) < 2) =>
        result = "ConcatenatingBytes"

\* C13 amended: the load fails with ConcatenatingBytes exactly when the
\* stream does not hold a complete 2-byte origin (0 or 1 bytes), and memory
\* is then unchanged; an odd length of 3 or more is not an error.
C13_MissingOrigin ==
    LoadedBytes =>
        /\ result = "ConcatenatingBytes" <=> Len(call.file.content) < 2
        /\ result = "ConcatenatingBytes" => memory = pre.memory

\* C13 witness: a file of the single byte 0x30 was refused with
\* ConcatenatingBytes and a filled memory kept its contents.
C13_Witness ==
    /\ LoadedBytes
    /\ call.file.content = <<48>>
    /\ result = "ConcatenatingBytes"
    /\ pre.memory = DataMemory
    /\ memory = DataMemory

\* read_image has returned from a readable file that holds an origin and
\* more complete words than fit between the origin and 0xFFFF.
LoadedOversized ==
    /\ LoadedBytes
    /\ Len(call.file.content) >= 2
    /\ BigEndianWord(call.file.content, 0) + (Len(call.file.content) \div 2 - 1)
           > 65536

\* C14: when an image holds more data words than fit between its origin and
\* address 0xFFFF (origin + k > 65536) the load fails with MemoryIndex and
\* never wraps the destination index around to address 0: every cell below
\* the origin is as before, the cells from the origin to 0xFFFF hold the
\* words written before the failure.
C14_OversizedImage ==
    LET content == call.file.content
        origin == BigEndianWord(content, 0)
    IN  LoadedOversized =>
        /\ result = "MemoryIndex"
        /\ \A a \in (DOMAIN memory \cup DOMAIN pre.memory) :
               a < origin => Cell(memory, a) = Cell(pre.memory, a)
        /\ \A a \in origin .. 65535 :
               Cell(memory, a) = BigEndianWord(content, a - origin + 1)

\* C14 witness: origin 0xFFFF with the words 0x1234, 0xFFFF failed with
\* MemoryIndex after writing 0x1234 at 0xFFFF, and cell 0 kept 0x0BAD.
C14_Witness ==
    /\ LoadedOversized
    /\ call.file.content = Image(65535, <<4660, 65535>>)
    /\ result = "MemoryIndex"
    /\ Cell(pre.memory, 0) = 2989
    /\ Cell(memory, 0) = 2989
    /\ Cell(memory, 65535) = 4660

\* mem_read has been called on call.index; `pre` is the machine before the
\* last call and call.ret the word it returned.
MemRead == at \in {"mem_read", "mem_read_failed"} /\ steps > 0

\* Memory differs from what it was before the call at most in the cells of
\* `changed`.
OnlyChanged(changed) ==
    \A a \in (DOMAIN memory \cup DOMAIN pre.memory) \ changed :
        Cell(memory, a) = Cell(pre.memory, a)

\* C15: mem_read(0xFE00) consumes exactly one input byte b before
\* returning: if b # 0 it stores 0x8000 at 0xFE00 and b at 0xFE02 and returns
\* 0x8000; if b = 0 it stores 0 at 0xFE00, leaves 0xFE02 unchanged and
\* returns 0.  mem_read of any other address (0xFE02 included) returns the
\* stored word, consumes no input and changes no memory cell.  (With no
\* input byte left the read of 0xFE00 fails with StandardIO and changes
\* nothing.)
C15_KeyboardRead ==
    LET b == Head(pre.stdin) IN
    /\ MemRead /\ call.index = MR_KBSR /\ pre.stdin # <<>> =>
        /\ result = "Ok"
        /\ stdin = Tail(pre.stdin)
        /\ IF b # 0
           THEN /\ Cell(memory, MR_KBSR) = 32768
                /\ Cell(memory, MR_KBDR) = b
                /\ call.ret = 32768
                /\ OnlyChanged({MR_KBSR, MR_KBDR})
           ELSE /\ Cell(memory, MR_KBSR) = 0
                /\ call.ret = 0
                /\ OnlyChanged({MR_KBSR})
    /\ MemRead /\ call.index = MR_KBSR /\ pre.stdin = <<>> =>
        result = "StandardIO" /\ memory = pre.memory
    /\ MemRead /\ call.index # MR_KBSR /\ call.index <= 65535 =>
        /\ result = "Ok"
        /\ call.ret = Cell(pre.memory, call.index)
        /\ stdin = pre.stdin
        /\ memory = pre.memory

\* C15 witness: with input 'A', 0 waiting and stale words in both keyboard
\* registers, mem_read(0xFE00) returned 0x8000, left 0x8000 and 'A' in the
\* registers and one byte of input.
C15_Witness ==
    /\ MemRead
    /\ steps = 1
    /\ call.index = MR_KBSR
    /\ pre.stdin = <<65, 0>>
    /\ Cell(pre.memory, MR_KBSR) = 4660
    /\ Cell(pre.memory, MR_KBDR) = 7
    /\ call.ret = 32768
    /\ Cell(memory, MR_KBSR) = 32768
    /\ Cell(memory, MR_KBDR) = 65
    /\ stdin = <<0>>

\* The registers other than those of `written` are as before the call.
OtherRegistersKept(written) ==
    \A r \in 0 .. 7 : r \notin written => registers[r] = pre.registers[r]

\* Memory is as before the call except, after a keyboard poll, in the two
\* keyboard registers.
MemoryKeptButKeyboard == OnlyChanged({MR_KBSR, MR_KBDR})

\* C16: an instruction whose top four bits are 8 (RTI) or 13 (RES) fails
\* with InvalidOpcode and leaves registers, cond, memory and the running
\* flag unchanged; every other value of the top four bits is dispatched to
\* its instruction: it never fails with InvalidOpcode and changes only what
\* that instruction may change.
C16_Dispatch ==
    LET op == OpOf(instruction)
        dr == FieldDR(instruction)
    IN  Executed =>
        /\ op \in {8, 13} =>
            /\ result = "InvalidOpcode"
            /\ registers = pre.registers
            /\ cond = pre.cond
            /\ memory = pre.memory
            /\ running = pre.running
            /\ pc = pre.pc
        /\ op \notin {8, 13} => result # "InvalidOpcode"
        /\ op \in {0, 12} =>
            registers = pre.registers /\ cond = pre.cond /\ memory = pre.memory
        /\ op \in {1, 5, 9, 14} =>
            OtherRegistersKept({dr}) /\ memory = pre.memory /\ pc = pre.pc
        /\ op \in {2, 6, 10} =>
            OtherRegistersKept({dr}) /\ MemoryKeptButKeyboard /\ pc = pre.pc
        /\ op \in {3, 7, 11} =>
            registers = pre.registers /\ cond = pre.cond /\ pc = pre.pc
        /\ op = 4 =>
            OtherRegistersKept({7}) /\ registers[7] = pre.pc
            /\ cond = pre.cond /\ memory = pre.memory
        /\ op = 15 =>
            OtherRegistersKept({0, 7}) /\ registers[7] = pre.pc /\ pc = pre.pc
        /\ op # 15 => running = pre.running /\ stdout = pre.stdout
                      /\ pending = pre.pending

\* C16 witness: the reserved instruction 0xDFFF failed with InvalidOpcode
\* on a machine with cond = Neg and left it as it was.
C16_Witness ==
    /\ Executed
    /\ instruction = 57343
    /\ result = "InvalidOpcode"
    /\ at = "execute_failed"
    /\ pre.cond = "Neg"
    /\ cond = "Neg"
    /\ registers = pre.registers

\* C17: a TRAP instruction whose low 8 bits are not in 0x20..0x25 fails with
\* InvalidTrapCode, whatever bits 11..8 hold, and performs no input or
\* output; R0..R6, PC, cond, memory and running are unchanged and R7 has
\* been overwritten with the PC.
C17_InvalidTrap ==
    Executed /\ OpOf(instruction) = 15 /\ instruction % 256 \notin 32 .. 37 =>
        /\ result = "InvalidTrapCode"
        /\ stdin = pre.stdin
        /\ stdout = pre.stdout
        /\ pending = pre.pending
        /\ OtherRegistersKept({7})
        /\ registers[7] = pre.pc
        /\ pc = pre.pc
        /\ cond = pre.cond
        /\ memory = pre.memory
        /\ running = pre.running

\* C17 witness: TRAP 0xFF with bits 11..8 all set, executed at PC = 0 with
\* input waiting, failed with InvalidTrapCode and left 0 in R7.
C17_Witness ==
    /\ Executed
    /\ instruction = 65535
    /\ result = "InvalidTrapCode"
    /\ pre.pc = 0
    /\ pre.registers[7] # 0
    /\ registers[7] = 0
    /\ pre.stdin # <<>>
    /\ stdin = pre.stdin

MaskBit(flag) == CASE flag = "Neg" -> 4 [] flag = "Zro" -> 2 [] flag = "Pos" -> 1

\* C19: BR sets PC to (PC + sign_extend(pc9)) mod 2^16 exactly when its
\* condition mask has the bit of the current cond set (Neg 4, Zro 2, Pos 1);
\* otherwise, mask 0 included, the whole machine state is unchanged.  BR
\* never changes a register, cond or memory.
C19_Branch ==
    LET mask == (instruction \div 512) % 8
        taken == (mask \div MaskBit(pre.cond)) % 2 = 1
    IN  Executed /\ OpOf(instruction) = 0 =>
        /\ result = "Ok"
        /\ registers = pre.registers
        /\ cond = pre.cond
        /\ memory = pre.memory
        /\ taken => pc = Wrap(pre.pc + SignedField(instruction, 9))
        /\ ~taken =>
            /\ pc = pre.pc
            /\ running = pre.running
            /\ stdin = pre.stdin
            /\ stdout = pre.stdout
            /\ pending = pre.pending

\* C19 witness: BR+ with offset 10 executed with cond = Pos at PC = 0x3000
\* left PC = 0x300A.
C19_Witness ==
    /\ Executed
    /\ steps = 1
    /\ instruction = 522
    /\ pre.cond = "Pos"
    /\ pre.pc = 12288
    /\ pc = 12298

\* C20 as stated: JSR/JSRR stores the PC it started with in R7 and
\* transfers control: with bit 11 set PC becomes (PC + sign_extend(pc11))
\* mod 2^16; with bit 11 clear PC becomes the value the base register held
\* when the instruction started, for every base register, R7 included.
C20_Original ==
    Executed /\ OpOf(instruction) = 4 =>
        /\ result = "Ok"
        /\ registers[7] = pre.pc
        /\ IF (instruction \div 2048) % 2 = 1
           THEN pc = Wrap(pre.pc + SignedField(instruction, 11))
           ELSE pc = pre.registers[FieldSR1(instruction)]

\* C21: JSR, JSRR and every TRAP write the PC into R7 without changing
\* cond: cond after the instruction equals cond before it, for TRAP except
\* where the GETC or IN routine then updates it from R0.
C21_LinkKeepsCond ==
    LET op == OpOf(instruction)
        vector == instruction % 256
    IN  Executed /\ op \in {4, 15} =>
        /\ registers[7] = pre.pc
        /\ op = 4 \/ vector \notin {32, 35} => cond = pre.cond
        /\ op = 15 /\ vector \in {32, 35} /\ result = "Ok" =>
               cond = FlagOf(registers[0])
        /\ op = 15 /\ vector \in {32, 35} /\ result # "Ok" => cond = pre.cond

\* C21 witness: JSR #1 executed at PC = 0 with cond = Neg wrote 0 into R7
\* and cond is still Neg.
C21_Witness ==
    /\ Executed
    /\ steps = 1
    /\ instruction = 18433
    /\ pre.pc = 0
    /\ pre.cond = "Neg"
    /\ pre.registers[7] # 0
    /\ registers[7] = 0
    /\ cond = "Neg"

\* C22: LEA stores the address (PC + sign_extend(pc9)) mod 2^16 in DR; LD
\* stores mem at that address; LDR stores
\* mem[(BaseR + sign_extend(offset6)) mod 2^16]; LDI stores
\* mem[mem[(PC + sign_extend(pc9)) mod 2^16]].  When no address read is
\* 0xFE00 these instructions change only DR and cond: PC, the other
\* registers and all of memory are unchanged.
C22_Loads ==
    LET i == instruction
        op == OpOf(i)
        dr == FieldDR(i)
        target9 == Wrap(pre.pc + SignedField(i, 9))
        target6 == Wrap(pre.registers[FieldSR1(i)] + SignedField(i, 6))
        pointer == Cell(pre.memory, target9)
        polls == \/ op \in {2, 10} /\ target9 = MR_KBSR
                 \/ op = 6 /\ target6 = MR_KBSR
                 \/ op = 10 /\ pointer = MR_KBSR
    IN  Executed /\ op \in {2, 6, 10, 14} /\ ~polls =>
        /\ result = "Ok"
        /\ op = 14 => registers[dr] = target9
        /\ op = 2 => registers[dr] = Cell(pre.memory, target9)
        /\ op = 6 => registers[dr] = Cell(pre.memory, target6)
        /\ op = 10 => registers[dr] = Cell(pre.memory, pointer)
        /\ OtherRegistersKept({dr})
        /\ pc = pre.pc
        /\ memory = pre.memory
        /\ stdin = pre.stdin

\* C22 witness: LDI R1, #0 at PC = 0x3000, where mem[0x3000] = 0x3002 and
\* mem[0x3002] = 0x5353, left 0x5353 in R1.
C22_Witness ==
    /\ Executed
    /\ steps = 1
    /\ instruction = 41472
    /\ pre.pc = 12288
    /\ Cell(pre.memory, 12288) = 12290
    /\ Cell(pre.memory, 12290) = 21331
    /\ registers[1] = 21331
    /\ cond = "Pos"

\* C23: ST, STR and STI write reg[SR] to exactly one memory cell (ST:
\* (PC + sext(pc9)) mod 2^16; STR: (BaseR + sext(offset6)) mod 2^16; STI: the
\* address held in mem[(PC + sext(pc9)) mod 2^16], read before the write)
\* and leave all registers, PC, cond and, when the STI pointer address is
\* not 0xFE00, every other memory cell unchanged.  (An STI whose pointer
\* address is 0xFE00 polls the keyboard: it stores through the status it
\* reads, or fails with StandardIO, storing nothing, when no input is left.)
C23_Stores ==
    LET i == instruction
        op == OpOf(i)
        value == pre.registers[FieldDR(i)]
        target9 == Wrap(pre.pc + SignedField(i, 9))
        target6 == Wrap(pre.registers[FieldSR1(i)] + SignedField(i, 6))
    IN  Executed /\ op \in {3, 7, 11} =>
        /\ registers = pre.registers
        /\ pc = pre.pc
        /\ cond = pre.cond
        /\ op = 3 =>
            result = "Ok" /\ Cell(memory, target9) = value /\ OnlyChanged({target9})
        /\ op = 7 =>
            result = "Ok" /\ Cell(memory, target6) = value /\ OnlyChanged({target6})
        /\ op = 11 /\ target9 # MR_KBSR =>
            /\ result = "Ok"
            /\ Cell(memory, Cell(pre.memory, target9)) = value
            /\ OnlyChanged({Cell(pre.memory, target9)})
            /\ stdin = pre.stdin
        /\ op = 11 /\ target9 = MR_KBSR =>
            IF pre.stdin = <<>>
            THEN result = "StandardIO" /\ memory = pre.memory
            ELSE /\ result = "Ok"
                 /\ Cell(memory, MR_KBSR) \in {0, 32768}
                 /\ Cell(memory, Cell(memory, MR_KBSR)) = value
                 /\ OnlyChanged({Cell(memory, MR_KBSR), MR_KBSR, MR_KBDR})

\* C23 witness: STI R1, #0 at PC = 0x3000, where mem[0x3000] = 0x3002,
\* stored R1 = 0xFFFF at 0x3002 and left the pointer in place.
C23_Witness ==
    /\ Executed
    /\ steps = 1
    /\ instruction = 45568
    /\ pre.pc = 12288
    /\ pre.registers[1] = 65535
    /\ Cell(pre.memory, 12288) = 12290
    /\ Cell(pre.memory, 12290) = 21331
    /\ Cell(memory, 12290) = 65535
    /\ Cell(memory, 12288) = 12290

\* execute has been called on the TRAP instruction with this vector; `pre`
\* is the machine the last call started from.
Trapped(vector) ==
    at \in {"trap", "trap_failed"} /\ steps > 0 /\ instruction % 256 = vector

\* C24: GETC and IN each consume exactly one input byte b, set R0 to b
\* zero-extended and set cond from R0 (Zro when b = 0, Pos otherwise, never
\* Neg); OUT, PUTS, PUTSP and HALT leave cond and R0 exactly as they were.
\* (With no input byte left GETC and IN fail with StandardIO and leave R0
\* and cond as they were.)
C24_TrapFlags ==
    /\ (Trapped(32) \/ Trapped(35)) /\ pre.stdin # <<>> =>
        /\ result = "Ok"
        /\ stdin = Tail(pre.stdin)
        /\ registers[0] = Head(pre.stdin)
        /\ cond = IF Head(pre.stdin) = 0 THEN "Zro" ELSE "Pos"
    /\ (Trapped(32) \/ Trapped(35)) /\ pre.stdin = <<>> =>
        /\ result = "StandardIO"
        /\ registers[0] = pre.registers[0]
        /\ cond = pre.cond
    /\ Trapped(33) \/ Trapped(34) \/ Trapped(36) \/ Trapped(37) =>
        /\ registers[0] = pre.registers[0]
        /\ cond = pre.cond

\* C24 witness: GETC executed with cond = Neg and the bytes 0, 'B' waiting
\* left 0 in R0, cond = Zro and 'B' waiting.
C24_Witness ==
    /\ Trapped(32)
    /\ steps = 1
    /\ pre.stdin = <<0, 66>>
    /\ pre.cond = "Neg"
    /\ pre.registers[0] = 233
    /\ registers[0] = 0
    /\ cond = "Zro"
    /\ stdin = <<66>>

\* Everything written to the host output so far, flushed or not.
Written == stdout \o pending

WrittenBefore == pre.stdout \o pre.pending

\* C25 as stated: for every R0 value in 0..255, TRAP OUT appends exactly
\* one byte to the host output, equal to the low 8 bits of R0, and flushes.
C25_Original ==
    Trapped(33) /\ pre.registers[0] <= 255 =>
        /\ result = "Ok"
        /\ Written = WrittenBefore \o <<pre.registers[0] % 256>>
        /\ pending = <<>>

\* The first address from a on whose word ends a PUTS walk over memory m: a
\* zero word or a word above 255; 65536 when there is none up to 0xFFFF.
\* The keyboard status register ends it too: what is read there is polled.
RECURSIVE WalkEnd(_, _)
WalkEnd(m, a) ==
    IF a > 65535 THEN 65536
    ELSE IF a = MR_KBSR \/ Cell(m, a) = 0 \/ Cell(m, a) > 255 THEN a
         ELSE WalkEnd(m, a + 1)

\* C26: TRAP OUT with R0 >= 256 fails with InvalidCharacter and writes
\* nothing; PUTS fails with InvalidCharacter at the first word >= 256 it
\* meets before a zero word (at the keyboard status register the word it
\* meets is the status just polled: 0x8000 after a nonzero input byte).
C26_InvalidCharacter ==
    LET end == WalkEnd(pre.memory, pre.registers[0]) IN
    /\ Trapped(33) /\ pre.registers[0] >= 256 =>
        /\ result = "InvalidCharacter"
        /\ Written = WrittenBefore
    /\ Trapped(34) /\ end <= 65535 /\ end # MR_KBSR =>
        (result = "InvalidCharacter" <=> Cell(pre.memory, end) > 255)
    /\ Trapped(34) /\ end = MR_KBSR =>
        (result = "InvalidCharacter" <=> pre.stdin # <<>> /\ Head(pre.stdin) # 0)
    /\ Trapped(34) /\ end = 65536 => result # "InvalidCharacter"

\* C26 witness: PUTS on the string 'A', newline, 'B', 0x0141 failed with
\* InvalidCharacter after writing the three characters before the word
\* 0x0141.
C26_Witness ==
    /\ Trapped(34)
    /\ steps = 1
    /\ pre.registers[0] = 20480
    /\ Cell(pre.memory, 20483) = 321
    /\ result = "InvalidCharacter"
    /\ Written = <<65, 10, 66>>

\* The words of memory m from address a up to, not including, address end.
WordsFrom(m, a, end) == [k \in 1 .. (end - a) |-> Cell(m, a + k - 1)]

\* A PUTS walk from R0 that meets only words in 1..255 and then a zero
\* word, without reaching the keyboard status register or the last address.
PlainString ==
    LET end == WalkEnd(pre.memory, pre.registers[0]) IN
    end <= 65535 /\ end # MR_KBSR /\ Cell(pre.memory, end) = 0

\* C27 as stated, on strings of words below 256: PUTS writes, for each
\* nonzero word from address R0 up to but excluding the first zero word,
\* that word's low 8 bits to the output in address order; it changes neither
\* R0 nor memory.
C27_Original ==
    LET a == pre.registers[0]
        words == WordsFrom(pre.memory, a, WalkEnd(pre.memory, a))
    IN  Trapped(34) /\ PlainString =>
        /\ result = "Ok"
        /\ Written = WrittenBefore \o [k \in 1 .. Len(words) |-> words[k] % 256]
        /\ registers[0] = a
        /\ memory = pre.memory

\* The first address from a on whose word ends a PUTSP walk over memory m: a
\* zero word, or the keyboard status register; 65536 when there is none.
RECURSIVE PackedEnd(_, _)
PackedEnd(m, a) ==
    IF a > 65535 THEN 65536
    ELSE IF a = MR_KBSR \/ Cell(m, a) = 0 THEN a
         ELSE PackedEnd(m, a + 1)

\* Low byte, then high byte, of each word.
RECURSIVE PackedBytes(_)
PackedBytes(words) ==
    IF words = <<>> THEN <<>>
    ELSE <<Head(words) % 256, Head(words) \div 256>> \o PackedBytes(Tail(words))

\* C28 as stated: PUTSP writes, for each nonzero word from address R0 up to
\* but excluding the first zero word, the word's low byte and then its high
\* byte (the high byte also when it is 0); it never fails with
\* InvalidCharacter, whatever the words contain.
C28_Original ==
    LET a == pre.registers[0]
        end == PackedEnd(pre.memory, a)
    IN  /\ Trapped(36) => result # "InvalidCharacter"
        /\ Trapped(36) /\ end <= 65535 /\ end # MR_KBSR =>
            /\ result = "Ok"
            /\ Written = WrittenBefore \o PackedBytes(WordsFrom(pre.memory, a, end))

\* C29: PUTS and PUTSP always terminate: the address walk never wraps from
\* 0xFFFF to 0x0000, so a walk from R0 writes at most one character (PUTS)
\* or two (PUTSP) for each address from R0 to 0xFFFF; and when every word
\* from R0 through 0xFFFF is nonzero and no other error occurs first, the
\* routine fails with MemoryIndex after processing the word at 0xFFFF,
\* whose characters are the last written.
C29_WalkEnds ==
    LET a == pre.registers[0]
        cells == 65536 - a
        new == Len(Written) - Len(WrittenBefore)
        words == WordsFrom(pre.memory, a, 65536)
    IN  /\ Trapped(34) => new <= 2 * cells
        /\ Trapped(36) => new <= 4 * cells
        /\ Trapped(34) /\ WalkEnd(pre.memory, a) = 65536 =>
            /\ result = "MemoryIndex"
            /\ (\A k \in 1 .. Len(words) : words[k] < 128) =>
                   Written = WrittenBefore \o words
        /\ Trapped(36) /\ PackedEnd(pre.memory, a) = 65536 =>
            /\ result = "MemoryIndex"
            /\ (\A k \in 1 .. Len(words) : words[k] < 128) =>
                   Written = WrittenBefore \o PackedBytes(words)

\* C29 witness: PUTS from 0xFFFE, where 'A' and 'B' fill the last two
\* addresses and address 0 holds 'Z', wrote "AB" and failed with
\* MemoryIndex.
C29_Witness ==
    /\ Trapped(34)
    /\ steps = 1
    /\ pre.registers[0] = 65534
    /\ Cell(pre.memory, 65535) = 66
    /\ Cell(pre.memory, 0) = 90
    /\ result = "MemoryIndex"
    /\ Written = <<65, 66>>

\* C30 as stated: every TRAP routine that writes to the output (OUT, PUTS,
\* IN, PUTSP, HALT) has flushed the output when it returns, on every return
\* path on which it has written at least one character, failure returns
\* included.
C30_Original ==
    (Trapped(33) \/ Trapped(34) \/ Trapped(35) \/ Trapped(36) \/ Trapped(37))
    /\ Written # WrittenBefore =>
        pending = <<>>

-----------------------------------------------------------------------------
(* C31: once set_termios has switched the terminal, the process never ends *)
(* (wrong argument count, image load failure, run failure, successful run) *)
(* with terminal attributes other than the original ones.  Stated as in    *)
(* the claim; main.rs restores them on the successful path only.           *)
C31_Original ==
    (at = "exited" /\ original_termios # None)
        => termios = original_termios[1]

-----------------------------------------------------------------------------
(* C32: for every 16-bit instruction word, execute never fails with        *)
(* InvalidRegister or Overflow: the decoder hands get_register,            *)
(* set_register and update_flags 3-bit register indexes only, and          *)
(* sign_extend a nonzero bit count (5, 6, 9 or 11) only.                   *)
C32_NoRegisterOrOverflowError ==
    at \in {"decoded", "decode_failed"}
        => result \notin {"InvalidRegister", "Overflow"}

\* ADD R7, R7, #-1: the highest register index and a sign-extended field.
C32_Witness ==
    /\ at = "decoded"
    /\ instruction = \h1FFF
    /\ registers[7] = wrapping_add(pre.registers[7], \hFFFF)

-----------------------------------------------------------------------------
\* What a read of the keyboard status register gives for the input byte it
\* consumes.
StatusFor(byte) == IF byte # 0 THEN \h8000 ELSE 0

\* This step polled the keyboard and its read of 0xFE00 returned `value`.
Polled(value) ==
    /\ stdin # <<>>
    /\ stdin' = Tail(stdin)
    /\ value = StatusFor(Head(stdin))
    /\ Cell(memory', MR_KBSR) = value
    /\ Head(stdin) # 0 => Cell(memory', MR_KBDR) = Head(stdin)

\* The address the load about to be executed reads its value from (for LDI,
\* through a pointer that is not itself the keyboard status register).
LoadTarget ==
    CASE OpOf(instruction) = 2 -> Wrap(pc + SignedField(instruction, 9))
      [] OpOf(instruction) = 6 ->
            Wrap(registers[FieldSR1(instruction)] + SignedField(instruction, 6))
      [] OpOf(instruction) = 10
           /\ Wrap(pc + SignedField(instruction, 9)) # MR_KBSR ->
            Cell(memory, Wrap(pc + SignedField(instruction, 9)))
      [] OTHER -> -1

\* run is about to execute TRAP PUTS or TRAP PUTSP with R0 = 0xFE00 and an
\* input byte waiting.
WalkFromStatus(vector) ==
    /\ at = "exec"
    /\ instruction = \hF000 + vector
    /\ registers[0] = MR_KBSR
    /\ stdin # <<>>

\* C33: whatever ST, STR or STI stored at 0xFE00 before, every successful
\* read of 0xFE00 (by the instruction fetch, by LD, LDR or LDI, or by the
\* first read of a PUTS or PUTSP walk) consumes one input byte and returns
\* 0x8000 if that byte is nonzero and 0x0000 if it is zero, and after a
\* nonzero byte mem[0xFE02] holds that byte.  (A walk that reads 0x8000
\* fails with InvalidCharacter in PUTS and prints its two halves in PUTSP; a
\* walk that reads 0 ends at once.)
C33_StatusRead ==
    [][ /\ (at = "fetch" /\ pc = MR_KBSR /\ at' = "incr")
            => Polled(instruction')
        /\ (at = "exec" /\ LoadTarget = MR_KBSR /\ at' = "fetch")
            => Polled(registers'[FieldDR(instruction)])
        /\ (WalkFromStatus(\h22) /\ Head(stdin) # 0)
            => Polled(\h8000) /\ result' = "InvalidCharacter"
        /\ (WalkFromStatus(\h24) /\ Head(stdin) # 0 /\ Cell(memory, \hFE01) = 0)
            => /\ Polled(\h8000)
               /\ at' = "fetch"
               /\ stdout' = stdout \o pending \o <<0>> \o Utf8(\h80)
        /\ (\E vector \in {\h22, \h24} : WalkFromStatus(vector))
              /\ Head(stdin) = 0
            => /\ Polled(0)
               /\ at' = "fetch"
               /\ stdout' = stdout \o pending
      ]_vars

\* ProgramStatus on the input 65, 0, 0, 66: 0x1234 was stored at 0xFE00
\* twice, LDR read 0x8000, LDI read 0, PUTS read 0 and the fetch at 0xFE00
\* read 0x8000 with the byte 66 in the data register.
C33_Witness ==
    /\ at = "incr"
    /\ fetched_at = MR_KBSR
    /\ instruction = \h8000
    /\ Cell(memory, MR_KBDR) = 66
    /\ registers[1] = \h1234
    /\ registers[2] = \h8000
    /\ registers[3] = 0

-----------------------------------------------------------------------------
\* read_image has returned a failure.
LoadFailed == at = "loaded" /\ result # "Ok"

\* C35 as stated: the load is all-or-nothing: whenever it fails
\* (ConcatenatingBytes or MemoryIndex), no memory cell has been modified.
C35_Original ==
    LoadFailed /\ result \in {"ConcatenatingBytes", "MemoryIndex"}
        => memory = pre.memory

\* C35 as amended: a load that fails before its write loop (the file cannot
\* be read, or the stream holds no complete origin: ReadingFile,
\* ConcatenatingBytes) has modified no memory cell; a load that fails with
\* MemoryIndex has written the data words that fit between the origin and
\* 0xFFFF and has modified no other cell.
C35_FailedLoad ==
    LoadFailed =>
        IF result = "MemoryIndex"
        THEN LET content == call.file.content
                 origin == BigEndianWord(content, 0)
             IN  /\ Len(content) \div 2 - 1 > 65536 - origin
                 /\ LoadedWords(content, 65536 - origin)
        ELSE /\ result \in {"ReadingFile", "ConcatenatingBytes"}
             /\ memory = pre.memory

\* Origin 0xFFFF with the words 0xFFFF, 0 over a memory holding 0x0042 at
\* 0xFFFF: the load failed with MemoryIndex after replacing that cell.
C35_Witness ==
    /\ LoadFailed
    /\ result = "MemoryIndex"
    /\ call.file.content = Image(\hFFFF, <<\hFFFF, 0>>)
    /\ Cell(pre.memory, \hFFFF) = \h0042
    /\ Cell(memory, \hFFFF) = \hFFFF
    /\ memory # pre.memory

-----------------------------------------------------------------------------
\* The passes of the loop a run from PC_START can make before the increment
\* of the PC fails at the last address.
ZeroWalk == U16 - PC_START

(* C34: run on a machine whose memory is entirely zero (no image, or an    *)
(* image with no data words) and whose PC is 0x3000 always terminates,     *)
(* and with an error.  Every word it fetches is a BR that is never taken,  *)
(* so each pass of the loop moves the PC up by exactly one and leaves      *)
(* memory zero: after k passes the PC is 0x3000 + k.  The loop therefore   *)
(* makes at most 0xD000 passes, and it returns when the fetch at 0xFE00    *)
(* finds no input (StandardIO) or a nonzero byte (the word 0x8000 is       *)
(* fetched: InvalidOpcode), or when the increment of the PC fails at       *)
(* 0xFFFF (MemoryIndex): never with Ok.                                    *)
C34_ZeroMemoryRunFails ==
    /\ at = "fetch" =>
          /\ pc = PC_START + steps
          /\ steps < ZeroWalk
          /\ memory = <<>>
          /\ running
    /\ at = "run_returned" =>
          /\ steps <= ZeroWalk
          /\ result \in {"StandardIO", "InvalidOpcode", "MemoryIndex"}
          /\ result = "MemoryIndex" <=> pc = \hFFFF

\* The input byte 0 let the fetch at 0xFE00 pass and run walked to the last
\* address, where the increment of the PC failed on pass 0xD000.
C34_Witness ==
    /\ at = "run_returned"
    /\ result = "MemoryIndex"
    /\ pc = \hFFFF
    /\ fetched_at = \hFFFF
    /\ steps = ZeroWalk
    /\ memory = <<>>
    /\ stdin = <<>>

====
